---- MODULE Spec2Model ----
(***************************************************************************)
(* VESA CVT timing calculator (vesa_timing_calculator.py) as a state       *)
(* machine: a request is drawn from bounded sets, VesaCalculator.calculate *)
(* and the dual-constraint calculator are applied to it, and a forward     *)
(* result can be fed back to the reverse and the dual calculators.         *)
(*                                                                         *)
(* Numbers.  The program computes with Python ints and floats.  The model  *)
(* is exact fixed-point arithmetic over the integers:                      *)
(*   refresh_rate  in 1/RateScale Hz   (6000  is 60.00 Hz)                 *)
(*   pixel_clock   in 1/ClockScale MHz (148500 is 148.500 MHz) on input,   *)
(*                 in 1/100 MHz in a result (round(pixel_clock, 2))        *)
(* A quotient is never formed before the product it divides: MulDiv gives  *)
(* the exact quotient and remainder of a*b/c without leaving 32 bits, and  *)
(* ceil and round are taken from them.  round(x, 2) and round(x) are       *)
(* round-half-to-even on the exact value; a Python double that sits on an  *)
(* exact tie may land on either neighbour, and the requests below are      *)
(* chosen so that no result is an exact tie.  math.ceil of a quotient of   *)
(* doubles whose exact value is an integer k gives k or k + 1, depending   *)
(* on the rounding errors of the operands: ceil_up is the set of v_total   *)
(* for which the reverse calculation lands above k.                        *)
(*                                                                         *)
(* The text generator (src/vesa_timing_rtl_template.py) writes a Verilog   *)
(* module and its testbench.  timing_params is the dictionary it is given, *)
(* u_vesa_timing_gen the registers of the generated module and             *)
(* tb_vesa_timing_gen the state of the generated testbench, simulated one  *)
(* event at a time with times in picoseconds (`timescale 1ns / 1ps).       *)
(* window is the MainWindow of the calculator: its widgets, its results    *)
(* table and the calls of calculate made by the handler of the last event. *)
(***************************************************************************)
EXTENDS Integers, Sequences, FiniteSets, TLC

VARIABLES req, res, fwd, phase, ceil_up,
          timing_params, u_vesa_timing_gen, tb_vesa_timing_gen, window

vars == <<req, res, fwd, phase, ceil_up,
          timing_params, u_vesa_timing_gen, tb_vesa_timing_gen, window>>

----------------------------------------------------------------------------
(* Bounds of the model: how many entries of each list of inputs are used.  *)
MaxH == 5
MaxV == 3
MaxR == 3
MaxP == 3
MaxT == 2
MaxPreset == 4

(* Fixed-point scales of the two float inputs. *)
RateScale == 100
ClockScale == 1000

(* float('inf') as a pixel_clock: above every finite request, and it       *)
(* compares with the integers as the float does (inf <= 0 is false).       *)
Infinity == 2000000 * ClockScale

(* Class constants of VesaCalculator. *)
H_SYNC_PERCENT == 8
MIN_V_SYNC_BP == 550
MIN_V_PORCH == 3
CELL_GRAN == 8
RB_H_BLANK == 160
RB_V_BLANK == 460
RB_H_SYNC == 32
RB_V_SYNC == 8
RB_MIN_V_BPORCH == 6

(* An absent optional argument (Python None) is the empty tuple, a present *)
(* one is a 1-tuple.                                                       *)
None == <<>>
Some(x) == <<x>>
Val(o) == o[1]

----------------------------------------------------------------------------
(* Exact arithmetic *)

(* a*b = q*c + r with 0 <= r < c, for a, b >= 0 and 0 < c <= 2^29, by     *)
(* long multiplication over the digits of b in base beta, where beta is    *)
(* chosen so that no intermediate value reaches 2^31                       *)
RECURSIVE MulDivDigits(_, _, _, _)
MulDivDigits(a, b, c, beta) ==
  IF b = 0 THEN [q |-> 0, r |-> 0]
  ELSE LET h == MulDivDigits(a, b \div beta, c, beta)
           digit == b % beta
           raw == h.r * beta + (a % c) * digit
       IN [q |-> h.q * beta + (a \div c) * digit + raw \div c, r |-> raw % c]

MulDiv(a, b, c) ==
  MulDivDigits(IF a < b THEN b ELSE a, IF a < b THEN a ELSE b, c, 1073741824 \div c)

(* math.ceil of a quotient m = [q, r] *)
Ceil(m) == IF m.r = 0 THEN m.q ELSE m.q + 1

(* math.ceil(a*b/c) *)
CeilDiv(a, b, c) == Ceil(MulDiv(a, b, c))

(* math.ceil of a quotient of doubles with exact quotient and remainder m: *)
(* an exact integer comes out one higher when the doubles round upwards    *)
FloatCeil(m, up) == IF m.r = 0 /\ ~up THEN m.q ELSE m.q + 1

(* round of a quotient m = [q, r] by c: to nearest, ties to even *)
Round(m, c) ==
  IF m.r > c - m.r THEN m.q + 1
  ELSE IF m.r < c - m.r THEN m.q
  ELSE IF m.q % 2 = 0 THEN m.q ELSE m.q + 1

(* round(a*b/c) *)
RoundDiv(a, b, c) == Round(MulDiv(a, b, c), c)

Max(a, b) == IF a >= b THEN a ELSE b

RECURSIVE GCD(_, _)
GCD(a, b) == IF b = 0 THEN a ELSE GCD(b, a % b)

(* an exception raised inside a calculator *)
Raise(msg) == [raised |-> msg]
Raised(r) == "raised" \in DOMAIN r

----------------------------------------------------------------------------
(* _calculate_standard_cvt *)

(* std_forward_horizontal without the truncation of line 217 *)
std_forward_horizontal_unrounded(h_active) ==
  LET h_active_rounded == h_active
      h_blank_pixels ==
        IF h_active_rounded <= 1024 THEN 256
        ELSE IF h_active_rounded <= 1280 THEN 320
        ELSE IF h_active_rounded <= 1920 THEN 280
        ELSE 288
      h_blanking == ((h_blank_pixels + CELL_GRAN - 1) \div CELL_GRAN) * CELL_GRAN
      h_sync_round == RoundDiv(h_blanking, H_SYNC_PERCENT, 100)
      h_sync_pulse == ((h_sync_round + CELL_GRAN - 1) \div CELL_GRAN) * CELL_GRAN
      h_back_porch ==
        (((h_blanking \div 2) - (h_sync_pulse \div 2)) \div CELL_GRAN) * CELL_GRAN
  IN [h_total |-> h_active_rounded + h_blanking,
      h_blanking |-> h_blanking,
      h_front_porch |-> h_blanking - h_sync_pulse - h_back_porch,
      h_sync_pulse |-> h_sync_pulse,
      h_back_porch |-> h_back_porch]

(* lines 217 and 272-298: the horizontal parameters *)
std_forward_horizontal(h_active) ==
  LET h_active_rounded == (h_active \div CELL_GRAN) * CELL_GRAN
      h_blank_pixels ==
        IF h_active_rounded <= 1024 THEN 256
        ELSE IF h_active_rounded <= 1280 THEN 320
        ELSE IF h_active_rounded <= 1920 THEN 280
        ELSE 288
      h_blanking == ((h_blank_pixels + CELL_GRAN - 1) \div CELL_GRAN) * CELL_GRAN
      h_sync_round == RoundDiv(h_blanking, H_SYNC_PERCENT, 100)
      h_sync_pulse == ((h_sync_round + CELL_GRAN - 1) \div CELL_GRAN) * CELL_GRAN
      h_back_porch ==
        (((h_blanking \div 2) - (h_sync_pulse \div 2)) \div CELL_GRAN) * CELL_GRAN
  IN [h_total |-> h_active_rounded + h_blanking,
      h_blanking |-> h_blanking,
      h_front_porch |-> h_blanking - h_sync_pulse - h_back_porch,
      h_sync_pulse |-> h_sync_pulse,
      h_back_porch |-> h_back_porch]

(* std_forward_v_back_porch with the line rate estimated from v_active     *)
(* alone, without the blanking lines of the seed                           *)
std_forward_v_back_porch_no_seed(v_active, refresh_rate) ==
  LET v_sync_pulse == 4
      estimated_v_total == v_active
      min_v_sync_bp_lines ==
        CeilDiv(MIN_V_SYNC_BP, refresh_rate * estimated_v_total,
                1000 * 1000 * RateScale)
  IN Max(min_v_sync_bp_lines - v_sync_pulse, 1)

(* lines 221-245: the vertical back porch from the seed estimate           *)
(*   h_freq_est = refresh_rate * estimated_v_total / 1000.0         (kHz)  *)
(*   h_period_est = 1000.0 / h_freq_est                             (us)   *)
(*   min_v_sync_bp_lines = math.ceil(MIN_V_SYNC_BP / h_period_est)         *)
(*     = ceil(MIN_V_SYNC_BP * refresh_rate * estimated_v_total / 10^6)     *)
std_forward_v_back_porch(v_active, refresh_rate) ==
  LET v_front_porch == MIN_V_PORCH
      v_sync_pulse == 4
      v_sync_bp_lines == 10
      estimated_v_total == v_active + v_front_porch + v_sync_pulse + v_sync_bp_lines
      min_v_sync_bp_lines ==
        CeilDiv(MIN_V_SYNC_BP, refresh_rate * estimated_v_total,
                1000 * 1000 * RateScale)
  IN Max(min_v_sync_bp_lines - v_sync_pulse, 1)

(* std_forward_pixel_clock cut to two decimals instead of rounded *)
std_forward_pixel_clock_truncated(h_total, v_total, refresh_rate) ==
  MulDiv(h_total * v_total, refresh_rate, 10000 * RateScale).q

(* lines 302 and 306: round((h_total * v_total * refresh_rate) / 1000000.0, 2) *)
(* in 1/100 MHz                                                            *)
std_forward_pixel_clock(h_total, v_total, refresh_rate) ==
  RoundDiv(h_total * v_total, refresh_rate, 10000 * RateScale)

(* lines 247-249 and 305-317: the result for the horizontal parameters h   *)
(* and the back porch                                                      *)
std_forward_result(h, v_back_porch, v_active, refresh_rate) ==
  LET v_front_porch == MIN_V_PORCH
      v_sync_pulse == 4
      v_blanking == v_front_porch + v_sync_pulse + v_back_porch
      v_total == v_active + v_blanking
  IN [pixel_clock |-> std_forward_pixel_clock(h.h_total, v_total, refresh_rate),
      h_total |-> h.h_total,
      h_blanking |-> h.h_blanking,
      h_front_porch |-> h.h_front_porch,
      h_sync_pulse |-> h.h_sync_pulse,
      h_back_porch |-> h.h_back_porch,
      v_total |-> v_total,
      v_blanking |-> v_blanking,
      v_front_porch |-> v_front_porch,
      v_sync_pulse |-> v_sync_pulse,
      v_back_porch |-> v_back_porch]

(* _calculate_standard_cvt choosing the blanking bracket of lines 272-279  *)
(* by h_active instead of h_active_rounded                                 *)
calculate_standard_cvt_bracket_unrounded(h_active, v_active, refresh_rate) ==
  IF refresh_rate = 0 THEN Raise("float division by zero")
  ELSE LET h_blanking ==
             IF h_active <= 1024 THEN 256
             ELSE IF h_active <= 1280 THEN 320
             ELSE IF h_active <= 1920 THEN 280
             ELSE 288
           h_sync_round == RoundDiv(h_blanking, H_SYNC_PERCENT, 100)
           h_sync_pulse == ((h_sync_round + CELL_GRAN - 1) \div CELL_GRAN) * CELL_GRAN
           h_back_porch ==
             (((h_blanking \div 2) - (h_sync_pulse \div 2)) \div CELL_GRAN) * CELL_GRAN
       IN std_forward_result([h_total |-> (h_active \div CELL_GRAN) * CELL_GRAN + h_blanking,
                              h_blanking |-> h_blanking,
                              h_front_porch |-> h_blanking - h_sync_pulse - h_back_porch,
                              h_sync_pulse |-> h_sync_pulse,
                              h_back_porch |-> h_back_porch],
                             std_forward_v_back_porch(v_active, refresh_rate),
                             v_active, refresh_rate)

calculate_standard_cvt(h_active, v_active, refresh_rate) ==
  IF refresh_rate = 0 THEN Raise("float division by zero")
  ELSE std_forward_result(std_forward_horizontal(h_active),
                          std_forward_v_back_porch(v_active, refresh_rate),
                          v_active, refresh_rate)

----------------------------------------------------------------------------
(* _calculate_reduced_blanking *)

(* rb_forward_horizontal with the horizontal blanking of the standard      *)
(* calculation in place of RB_H_BLANK                                      *)
rb_forward_horizontal_standard(h_active) == std_forward_horizontal(h_active)

(* lines 344-356: the fixed horizontal parameters *)
rb_forward_horizontal(h_active) ==
  LET h_active_rounded == (h_active \div CELL_GRAN) * CELL_GRAN
      h_blanking == RB_H_BLANK
      h_sync_pulse == RB_H_SYNC
      h_back_porch == 80
  IN [h_total |-> h_active_rounded + h_blanking,
      h_blanking |-> h_blanking,
      h_front_porch |-> h_blanking - h_sync_pulse - h_back_porch,
      h_sync_pulse |-> h_sync_pulse,
      h_back_porch |-> h_back_porch]

(* rb_forward_v_blanking without the floor of lines 384-385 *)
rb_forward_v_blanking_no_floor(v_active, refresh_rate) ==
  LET v_sync_pulse == RB_V_SYNC
      v_front_porch == MIN_V_PORCH
      v_back_porch == RB_MIN_V_BPORCH
      v_total_est == v_active + v_front_porch + v_sync_pulse + v_back_porch
  IN CeilDiv(RB_V_BLANK, refresh_rate * v_total_est, 1000000 * RateScale)

(* lines 360-385: the vertical blanking from the seed estimate             *)
(*   h_freq = refresh_rate * v_total_est                            (Hz)   *)
(*   h_period = 1000000.0 / h_freq                                  (us)   *)
(*   v_blanking_lines = math.ceil(RB_V_BLANK / h_period)                   *)
(*     = ceil(RB_V_BLANK * refresh_rate * v_total_est / 10^6)              *)
rb_forward_v_blanking(v_active, refresh_rate) ==
  LET v_sync_pulse == RB_V_SYNC
      v_front_porch == MIN_V_PORCH
      v_back_porch == RB_MIN_V_BPORCH
      v_total_est == v_active + v_front_porch + v_sync_pulse + v_back_porch
      v_blanking_lines ==
        CeilDiv(RB_V_BLANK, refresh_rate * v_total_est, 1000000 * RateScale)
      min_v_blanking == v_front_porch + v_sync_pulse + RB_MIN_V_BPORCH
  IN Max(v_blanking_lines, min_v_blanking)

(* lines 395 and 399 *)
rb_forward_pixel_clock(h_total, v_total, refresh_rate) ==
  RoundDiv(h_total * v_total, refresh_rate, 10000 * RateScale)

(* rb_forward_result with the refresh_rate entry of line 535 added to the  *)
(* dictionary of lines 397-409                                             *)
rb_forward_result_with_refresh_rate(h, v_blanking, v_active, refresh_rate) ==
  LET v_sync_pulse == RB_V_SYNC
      v_front_porch == MIN_V_PORCH
      v_back_porch == v_blanking - v_front_porch - v_sync_pulse
      v_total == v_active + v_blanking
  IN [pixel_clock |-> rb_forward_pixel_clock(h.h_total, v_total, refresh_rate),
      refresh_rate |-> refresh_rate,
      h_total |-> h.h_total,
      h_blanking |-> h.h_blanking,
      h_front_porch |-> h.h_front_porch,
      h_sync_pulse |-> h.h_sync_pulse,
      h_back_porch |-> h.h_back_porch,
      v_total |-> v_total,
      v_blanking |-> v_blanking,
      v_front_porch |-> v_front_porch,
      v_sync_pulse |-> v_sync_pulse,
      v_back_porch |-> v_back_porch]

(* lines 387-391 and 398-410: the result for the horizontal parameters h   *)
(* and the vertical blanking                                               *)
rb_forward_result(h, v_blanking, v_active, refresh_rate) ==
  LET v_sync_pulse == RB_V_SYNC
      v_front_porch == MIN_V_PORCH
      v_back_porch == v_blanking - v_front_porch - v_sync_pulse
      v_total == v_active + v_blanking
  IN [pixel_clock |-> rb_forward_pixel_clock(h.h_total, v_total, refresh_rate),
      h_total |-> h.h_total,
      h_blanking |-> h.h_blanking,
      h_front_porch |-> h.h_front_porch,
      h_sync_pulse |-> h.h_sync_pulse,
      h_back_porch |-> h.h_back_porch,
      v_total |-> v_total,
      v_blanking |-> v_blanking,
      v_front_porch |-> v_front_porch,
      v_sync_pulse |-> v_sync_pulse,
      v_back_porch |-> v_back_porch]

calculate_reduced_blanking(h_active, v_active, refresh_rate) ==
  IF refresh_rate = 0 THEN Raise("float division by zero")
  ELSE rb_forward_result(rb_forward_horizontal(h_active),
                         rb_forward_v_blanking(v_active, refresh_rate),
                         v_active, refresh_rate)

----------------------------------------------------------------------------
(* _calculate_from_pixel_clock                                             *)
(* With pixel_clock = 0.0 the first round divides 1000000.0 by a zero line *)
(* frequency; with pixel_clock = inf the line period is 0.0 and the budget *)
(* is divided by it.  Both are ZeroDivisionError.                          *)

(* budget_lines with int() in place of math.ceil() *)
budget_lines_truncated(budget, pixel_clock, h_total, v_total) ==
  LET g == GCD(budget, ClockScale)
      k == GCD(h_total * v_total, v_total)
  IN MulDiv((budget \div g) * pixel_clock, v_total \div k,
            (ClockScale \div g) * ((h_total * v_total) \div k)).q

(* Lines needed for a time budget of budget microseconds at the line rate  *)
(* of the current round:                                                   *)
(*   refresh_rate = (pixel_clock * 1000000.0) / (h_total * v_total)        *)
(*   h_freq = refresh_rate * v_total                                       *)
(*   h_period = 1000000.0 / h_freq                                         *)
(*   math.ceil(budget / h_period)                                          *)
(*     = ceil(budget * pixel_clock * v_total / (h_total * v_total))        *)
(* with pixel_clock in MHz; budget/ClockScale and v_total/(h_total *       *)
(* v_total) are reduced by their greatest common divisors to keep the      *)
(* denominator inside 29 bits.                                             *)
budget_lines(budget, pixel_clock, h_total, v_total) ==
  LET g == GCD(budget, ClockScale)
      k == GCD(h_total * v_total, v_total)
  IN FloatCeil(MulDiv((budget \div g) * pixel_clock, v_total \div k,
                      (ClockScale \div g) * ((h_total * v_total) \div k)),
               v_total \in ceil_up)

(* for _ in range(5), reduced blanking: lines 452-473.  rb_reverse_loop is *)
(* the head of a round (lines 452-468), rb_reverse_round its end with the  *)
(* new blanking v_blanking_new (lines 470-473).                            *)
RECURSIVE rb_reverse_loop(_, _, _, _, _, _)
rb_reverse_round(round, v_blanking, v_back_porch, v_blanking_new, v_active, pixel_clock, h_total) ==
  IF v_blanking_new = v_blanking
  THEN [v_back_porch |-> v_back_porch, rounds |-> round + 1]
  ELSE rb_reverse_loop(round + 1, v_blanking_new,
                       v_blanking_new - MIN_V_PORCH - RB_V_SYNC,
                       v_active, pixel_clock, h_total)

rb_reverse_loop(round, v_blanking, v_back_porch, v_active, pixel_clock, h_total) ==
  IF round = 5 THEN [v_back_porch |-> v_back_porch, rounds |-> round]
  ELSE LET v_front_porch == MIN_V_PORCH
           v_sync_pulse == RB_V_SYNC
           v_total == v_active + v_blanking
           v_blanking_lines == budget_lines(RB_V_BLANK, pixel_clock, h_total, v_total)
           min_v_blanking == v_front_porch + v_sync_pulse + RB_MIN_V_BPORCH
       IN rb_reverse_round(round, v_blanking, v_back_porch,
                           Max(v_blanking_lines, min_v_blanking),
                           v_active, pixel_clock, h_total)

(* for _ in range(5), standard: lines 507-525.  std_reverse_loop is the    *)
(* head of a round (lines 507-521), std_reverse_round its end with the new *)
(* back porch v_back_porch_new (lines 523-525).                            *)
RECURSIVE std_reverse_loop(_, _, _, _, _)
std_reverse_round(round, v_back_porch, v_back_porch_new, v_active, pixel_clock, h_total) ==
  IF v_back_porch_new = v_back_porch
  THEN [v_back_porch |-> v_back_porch, rounds |-> round + 1]
  ELSE std_reverse_loop(round + 1, v_back_porch_new, v_active, pixel_clock, h_total)

(* std_reverse_loop without the max(..., 1) of line 521 *)
std_reverse_loop_no_floor(round, v_back_porch, v_active, pixel_clock, h_total) ==
  IF round = 5 THEN [v_back_porch |-> v_back_porch, rounds |-> round]
  ELSE LET v_front_porch == MIN_V_PORCH
           v_sync_pulse == 4
           v_blanking == v_front_porch + v_sync_pulse + v_back_porch
           v_total == v_active + v_blanking
           min_v_sync_bp_lines == budget_lines(MIN_V_SYNC_BP, pixel_clock, h_total, v_total)
       IN std_reverse_round(round, v_back_porch,
                            min_v_sync_bp_lines - v_sync_pulse,
                            v_active, pixel_clock, h_total)

std_reverse_loop(round, v_back_porch, v_active, pixel_clock, h_total) ==
  IF round = 5 THEN [v_back_porch |-> v_back_porch, rounds |-> round]
  ELSE LET v_front_porch == MIN_V_PORCH
           v_sync_pulse == 4
           v_blanking == v_front_porch + v_sync_pulse + v_back_porch
           v_total == v_active + v_blanking
           min_v_sync_bp_lines == budget_lines(MIN_V_SYNC_BP, pixel_clock, h_total, v_total)
       IN std_reverse_round(round, v_back_porch,
                            Max(min_v_sync_bp_lines - v_sync_pulse, 1),
                            v_active, pixel_clock, h_total)

(* reverse_horizontal taking the else branch of line 432 for every request *)
reverse_horizontal_always_standard(h_active, reduced_blanking) ==
  LET h_active_rounded == (h_active \div CELL_GRAN) * CELL_GRAN
      h_blank_pixels ==
        IF h_active_rounded <= 1024 THEN 256
        ELSE IF h_active_rounded <= 1280 THEN 320
        ELSE IF h_active_rounded <= 1920 THEN 280
        ELSE 288
      h_blanking == ((h_blank_pixels + CELL_GRAN - 1) \div CELL_GRAN) * CELL_GRAN
      h_sync_round == RoundDiv(h_blanking, H_SYNC_PERCENT, 100)
      h_sync_pulse == ((h_sync_round + CELL_GRAN - 1) \div CELL_GRAN) * CELL_GRAN
      h_back_porch ==
        (((h_blanking \div 2) - (h_sync_pulse \div 2)) \div CELL_GRAN) * CELL_GRAN
  IN [h_total |-> h_active_rounded + h_blanking,
      h_blanking |-> h_blanking,
      h_front_porch |-> h_blanking - h_sync_pulse - h_back_porch,
      h_sync_pulse |-> h_sync_pulse,
      h_back_porch |-> h_back_porch]

(* lines 432-440 and 478-497: the horizontal parameters *)
reverse_horizontal(h_active, reduced_blanking) ==
  LET h_active_rounded == (h_active \div CELL_GRAN) * CELL_GRAN
      h_blank_pixels ==
        IF h_active_rounded <= 1024 THEN 256
        ELSE IF h_active_rounded <= 1280 THEN 320
        ELSE IF h_active_rounded <= 1920 THEN 280
        ELSE 288
      std_h_blanking == ((h_blank_pixels + CELL_GRAN - 1) \div CELL_GRAN) * CELL_GRAN
      std_h_sync_round == RoundDiv(std_h_blanking, H_SYNC_PERCENT, 100)
      std_h_sync_pulse == ((std_h_sync_round + CELL_GRAN - 1) \div CELL_GRAN) * CELL_GRAN
      std_h_back_porch ==
        (((std_h_blanking \div 2) - (std_h_sync_pulse \div 2)) \div CELL_GRAN) * CELL_GRAN
      h_blanking == IF reduced_blanking THEN RB_H_BLANK ELSE std_h_blanking
      h_sync_pulse == IF reduced_blanking THEN RB_H_SYNC ELSE std_h_sync_pulse
      h_back_porch == IF reduced_blanking THEN 80 ELSE std_h_back_porch
  IN [h_total |-> h_active_rounded + h_blanking,
      h_blanking |-> h_blanking,
      h_front_porch |-> h_blanking - h_sync_pulse - h_back_porch,
      h_sync_pulse |-> h_sync_pulse,
      h_back_porch |-> h_back_porch]

(* the refinement loop of the chosen branch from its seed (lines 448-449   *)
(* and 504), for the h_total of the branch                                 *)
reverse_loop_from(h_total, v_active, pixel_clock, reduced_blanking) ==
  IF reduced_blanking
  THEN rb_reverse_loop(0, MIN_V_PORCH + RB_V_SYNC + RB_MIN_V_BPORCH,
                       RB_MIN_V_BPORCH, v_active, pixel_clock, h_total)
  ELSE std_reverse_loop(0, 10, v_active, pixel_clock, h_total)

reverse_loop(h_active, v_active, pixel_clock, reduced_blanking) ==
  reverse_loop_from(reverse_horizontal(h_active, reduced_blanking).h_total,
                    v_active, pixel_clock, reduced_blanking)

(* lines 530 and 535: round((pixel_clock * 1000000.0) / (h_total * v_total), 2) *)
(* in 1/100 Hz                                                             *)
reverse_refresh_rate(pixel_clock, h_total, v_total) ==
  RoundDiv(pixel_clock, (1000000 * 100) \div ClockScale, h_total * v_total)

(* reverse_result without lines 528-529: v_blanking and v_total keep the   *)
(* values of the seed                                                      *)
reverse_result_stale(h, v_back_porch, v_active, pixel_clock, reduced_blanking) ==
  LET v_sync_pulse == IF reduced_blanking THEN RB_V_SYNC ELSE 4
      v_front_porch == MIN_V_PORCH
      v_blanking == v_front_porch + v_sync_pulse
                      + (IF reduced_blanking THEN RB_MIN_V_BPORCH ELSE 10)
      v_total == v_active + v_blanking
  IN [pixel_clock |-> RoundDiv(pixel_clock, 100, ClockScale),
      refresh_rate |-> reverse_refresh_rate(pixel_clock, h.h_total, v_total),
      h_total |-> h.h_total,
      h_blanking |-> h.h_blanking,
      h_front_porch |-> h.h_front_porch,
      h_sync_pulse |-> h.h_sync_pulse,
      h_back_porch |-> h.h_back_porch,
      v_total |-> v_total,
      v_blanking |-> v_blanking,
      v_front_porch |-> v_front_porch,
      v_sync_pulse |-> v_sync_pulse,
      v_back_porch |-> v_back_porch]

(* lines 527-546: the result for the horizontal parameters h and the back  *)
(* porch the loop ended with                                               *)
reverse_result(h, v_back_porch, v_active, pixel_clock, reduced_blanking) ==
  LET v_sync_pulse == IF reduced_blanking THEN RB_V_SYNC ELSE 4
      v_front_porch == MIN_V_PORCH
      v_blanking == v_front_porch + v_sync_pulse + v_back_porch
      v_total == v_active + v_blanking
  IN [pixel_clock |-> RoundDiv(pixel_clock, 100, ClockScale),
      refresh_rate |-> reverse_refresh_rate(pixel_clock, h.h_total, v_total),
      h_total |-> h.h_total,
      h_blanking |-> h.h_blanking,
      h_front_porch |-> h.h_front_porch,
      h_sync_pulse |-> h.h_sync_pulse,
      h_back_porch |-> h.h_back_porch,
      v_total |-> v_total,
      v_blanking |-> v_blanking,
      v_front_porch |-> v_front_porch,
      v_sync_pulse |-> v_sync_pulse,
      v_back_porch |-> v_back_porch]

calculate_from_pixel_clock(h_active, v_active, pixel_clock, reduced_blanking) ==
  IF pixel_clock = 0 \/ pixel_clock = Infinity
  THEN Raise("float division by zero")
  ELSE reverse_result(reverse_horizontal(h_active, reduced_blanking),
                      reverse_loop(h_active, v_active, pixel_clock,
                                   reduced_blanking).v_back_porch,
                      v_active, pixel_clock, reduced_blanking)

----------------------------------------------------------------------------
(* _calculate_with_both_params (tests/test_calculator_only.py)             *)
(* With refresh_rate = 0.0 line 148 divides by zero; with pixel_clock =    *)
(* inf, round(target_v_total) is OverflowError.                            *)

(* abs(m - pixel_clock) < tol for a quotient m = [q, r] *)
within(m, pixel_clock, tol) ==
  /\ m.q < pixel_clock + tol
  /\ \/ m.q > pixel_clock - tol
     \/ (m.q = pixel_clock - tol /\ m.r > 0)

(* abs(calculated_pixel_clock - pixel_clock) < 0.01 with                   *)
(*   calculated_pixel_clock = (h_total * v_total * refresh_rate) / 1000000.0 *)
(* compared in units of 1/ClockScale MHz                                   *)
clock_close(h_total, v_total, refresh_rate, pixel_clock) ==
  within(MulDiv(h_total * v_total, refresh_rate, (1000000 \div ClockScale) * RateScale),
         pixel_clock, ClockScale \div 100)

(* target_v_total_rounded with int(target_v_total): cut, not rounded *)
target_v_total_truncated(h_total, refresh_rate, pixel_clock) ==
  MulDiv(pixel_clock, (1000000 \div ClockScale) * RateScale,
         refresh_rate * h_total).q

(* int(round(target_v_total)) with                                         *)
(*   total_pixels_times_lines = (pixel_clock * 1000000.0) / refresh_rate   *)
(*   target_v_total = total_pixels_times_lines / h_total                   *)
target_v_total_rounded(h_total, refresh_rate, pixel_clock) ==
  RoundDiv(pixel_clock, (1000000 \div ClockScale) * RateScale,
           refresh_rate * h_total)

(* for _ in range(10): lines 170-190 (reduced blanking, min_back_porch =   *)
(* RB_MIN_V_BPORCH) and 227-247 (standard, min_back_porch = 1).  both_loop *)
(* is the head of a round with its exit test, both_round the adjustment to *)
(* the rounded target v_total_new.                                         *)
RECURSIVE both_loop(_, _, _, _, _, _, _, _, _)
(* both_round without the minimum of lines 182-187 and 239-244 *)
both_round_unclamped(round, v_total_new, v_active, refresh_rate, pixel_clock, h_total, v_sync_pulse, min_back_porch) ==
  both_loop(round + 1, v_total_new,
            v_total_new - v_active - MIN_V_PORCH - v_sync_pulse,
            v_active, refresh_rate, pixel_clock,
            h_total, v_sync_pulse, min_back_porch)

both_round(round, v_total_new, v_active, refresh_rate, pixel_clock, h_total, v_sync_pulse, min_back_porch) ==
  LET v_front_porch == MIN_V_PORCH
      v_blanking_new == v_total_new - v_active
      min_v_blanking == v_front_porch + v_sync_pulse + min_back_porch
      v_blanking == IF v_blanking_new < min_v_blanking
                    THEN min_v_blanking ELSE v_blanking_new
      v_total_next == IF v_blanking_new < min_v_blanking
                      THEN v_active + v_blanking ELSE v_total_new
  IN both_loop(round + 1, v_total_next,
               v_blanking - v_front_porch - v_sync_pulse,
               v_active, refresh_rate, pixel_clock,
               h_total, v_sync_pulse, min_back_porch)

(* both_loop with range(11) in place of range(10) *)
both_loop_eleven(round, v_total, v_back_porch, v_active, refresh_rate, pixel_clock, h_total, v_sync_pulse, min_back_porch) ==
  IF round = 11 THEN [v_back_porch |-> v_back_porch, rounds |-> round]
  ELSE IF clock_close(h_total, v_total, refresh_rate, pixel_clock)
       THEN [v_back_porch |-> v_back_porch, rounds |-> round + 1]
  ELSE both_round(round, target_v_total_rounded(h_total, refresh_rate, pixel_clock),
                  v_active, refresh_rate, pixel_clock,
                  h_total, v_sync_pulse, min_back_porch)

both_loop(round, v_total, v_back_porch, v_active, refresh_rate, pixel_clock, h_total, v_sync_pulse, min_back_porch) ==
  IF round = 10 THEN [v_back_porch |-> v_back_porch, rounds |-> round]
  ELSE IF clock_close(h_total, v_total, refresh_rate, pixel_clock)
       THEN [v_back_porch |-> v_back_porch, rounds |-> round + 1]
  ELSE both_round(round, target_v_total_rounded(h_total, refresh_rate, pixel_clock),
                  v_active, refresh_rate, pixel_clock,
                  h_total, v_sync_pulse, min_back_porch)

(* both_horizontal choosing the blanking bracket of lines 195-202 by       *)
(* h_active instead of h_active_rounded                                    *)
both_horizontal_bracket_unrounded(h_active, reduced_blanking) ==
  LET h_active_rounded == (h_active \div CELL_GRAN) * CELL_GRAN
      h_blank_pixels ==
        IF h_active <= 1024 THEN 256
        ELSE IF h_active <= 1280 THEN 320
        ELSE IF h_active <= 1920 THEN 280
        ELSE 288
      std_h_blanking == ((h_blank_pixels + CELL_GRAN - 1) \div CELL_GRAN) * CELL_GRAN
      std_h_sync_round == RoundDiv(std_h_blanking, H_SYNC_PERCENT, 100)
      std_h_sync_pulse == ((std_h_sync_round + CELL_GRAN - 1) \div CELL_GRAN) * CELL_GRAN
      std_h_back_porch ==
        (((std_h_blanking \div 2) - (std_h_sync_pulse \div 2)) \div CELL_GRAN) * CELL_GRAN
      h_blanking == IF reduced_blanking THEN RB_H_BLANK ELSE std_h_blanking
      h_sync_pulse == IF reduced_blanking THEN RB_H_SYNC ELSE std_h_sync_pulse
      h_back_porch == IF reduced_blanking THEN 80 ELSE std_h_back_porch
  IN [h_total |-> h_active_rounded + h_blanking,
      h_blanking |-> h_blanking,
      h_front_porch |-> h_blanking - h_sync_pulse - h_back_porch,
      h_sync_pulse |-> h_sync_pulse,
      h_back_porch |-> h_back_porch]

(* lines 142, 151-157 and 195-214 of the test module: the horizontal       *)
(* parameters                                                              *)
both_horizontal(h_active, reduced_blanking) ==
  LET h_active_rounded == (h_active \div CELL_GRAN) * CELL_GRAN
      h_blank_pixels ==
        IF h_active_rounded <= 1024 THEN 256
        ELSE IF h_active_rounded <= 1280 THEN 320
        ELSE IF h_active_rounded <= 1920 THEN 280
        ELSE 288
      std_h_blanking == ((h_blank_pixels + CELL_GRAN - 1) \div CELL_GRAN) * CELL_GRAN
      std_h_sync_round == RoundDiv(std_h_blanking, H_SYNC_PERCENT, 100)
      std_h_sync_pulse == ((std_h_sync_round + CELL_GRAN - 1) \div CELL_GRAN) * CELL_GRAN
      std_h_back_porch ==
        (((std_h_blanking \div 2) - (std_h_sync_pulse \div 2)) \div CELL_GRAN) * CELL_GRAN
      h_blanking == IF reduced_blanking THEN RB_H_BLANK ELSE std_h_blanking
      h_sync_pulse == IF reduced_blanking THEN RB_H_SYNC ELSE std_h_sync_pulse
      h_back_porch == IF reduced_blanking THEN 80 ELSE std_h_back_porch
  IN [h_total |-> h_active_rounded + h_blanking,
      h_blanking |-> h_blanking,
      h_front_porch |-> h_blanking - h_sync_pulse - h_back_porch,
      h_sync_pulse |-> h_sync_pulse,
      h_back_porch |-> h_back_porch]

(* the refinement loop of the chosen branch from its seed (lines 160-167   *)
(* and 217-224), for the h_total of the branch                             *)
both_params_loop_from(h_total, v_active, refresh_rate, pixel_clock, reduced_blanking) ==
  LET v_sync_pulse == IF reduced_blanking THEN RB_V_SYNC ELSE 4
      v_back_porch == IF reduced_blanking THEN RB_MIN_V_BPORCH ELSE 10
      min_back_porch == IF reduced_blanking THEN RB_MIN_V_BPORCH ELSE 1
  IN both_loop(0, v_active + MIN_V_PORCH + v_sync_pulse + v_back_porch,
               v_back_porch, v_active, refresh_rate, pixel_clock,
               h_total, v_sync_pulse, min_back_porch)

both_params_loop(h_active, v_active, refresh_rate, pixel_clock, reduced_blanking) ==
  both_params_loop_from(both_horizontal(h_active, reduced_blanking).h_total,
                        v_active, refresh_rate, pixel_clock, reduced_blanking)

(* both_params_result returning the actual_pixel_clock of line 254 in      *)
(* place of the requested pixel clock                                      *)
both_params_result_recomputed(h, v_back_porch, v_active, refresh_rate, pixel_clock, reduced_blanking) ==
  LET v_sync_pulse == IF reduced_blanking THEN RB_V_SYNC ELSE 4
      v_front_porch == MIN_V_PORCH
      v_blanking == v_front_porch + v_sync_pulse + v_back_porch
      v_total == v_active + v_blanking
  IN [pixel_clock |-> RoundDiv(h.h_total * v_total, refresh_rate, 10000 * RateScale),
      refresh_rate |-> RoundDiv(refresh_rate, 100, RateScale),
      h_total |-> h.h_total,
      h_blanking |-> h.h_blanking,
      h_front_porch |-> h.h_front_porch,
      h_sync_pulse |-> h.h_sync_pulse,
      h_back_porch |-> h.h_back_porch,
      v_total |-> v_total,
      v_blanking |-> v_blanking,
      v_front_porch |-> v_front_porch,
      v_sync_pulse |-> v_sync_pulse,
      v_back_porch |-> v_back_porch]

(* lines 249-270 of the test module: the result for the horizontal         *)
(* parameters h and the back porch the loop ended with                     *)
both_params_result(h, v_back_porch, v_active, refresh_rate, pixel_clock, reduced_blanking) ==
  LET v_sync_pulse == IF reduced_blanking THEN RB_V_SYNC ELSE 4
      v_front_porch == MIN_V_PORCH
      v_blanking == v_front_porch + v_sync_pulse + v_back_porch
      v_total == v_active + v_blanking
  IN [pixel_clock |-> RoundDiv(pixel_clock, 100, ClockScale),
      refresh_rate |-> RoundDiv(refresh_rate, 100, RateScale),
      h_total |-> h.h_total,
      h_blanking |-> h.h_blanking,
      h_front_porch |-> h.h_front_porch,
      h_sync_pulse |-> h.h_sync_pulse,
      h_back_porch |-> h.h_back_porch,
      v_total |-> v_total,
      v_blanking |-> v_blanking,
      v_front_porch |-> v_front_porch,
      v_sync_pulse |-> v_sync_pulse,
      v_back_porch |-> v_back_porch]

calculate_with_both_params(h_active, v_active, refresh_rate, pixel_clock, reduced_blanking) ==
  IF refresh_rate = 0 THEN Raise("float division by zero")
  ELSE IF pixel_clock = Infinity
  THEN Raise("cannot convert float infinity to integer")
  ELSE both_params_result(both_horizontal(h_active, reduced_blanking),
                          both_params_loop(h_active, v_active, refresh_rate,
                                           pixel_clock, reduced_blanking).v_back_porch,
                          v_active, refresh_rate, pixel_clock, reduced_blanking)

----------------------------------------------------------------------------
(* VesaCalculator.calculate *)

(* Error with the timing fields present and zeroed *)
Error_with_timing(msg) ==
  [error |-> TRUE, message |-> msg, pixel_clock |-> 0, h_total |-> 0, v_total |-> 0]

(* An error result: the flag and the message.  The message is the kind of  *)
(* the f-string (the quantity it names) followed by the value it quotes.   *)
Error(msg) == [error |-> TRUE, message |-> msg]

IsError(r) == "error" \in DOMAIN r

(* calculate without the except clause of lines 185-189 *)
Uncaught(r) == r

(* except Exception as e, lines 185-189: r is what the try block gave *)
Caught(r) == IF Raised(r) THEN Error(<<"exception", r.raised>>) ELSE r

(* the body of the try block, lines 163-183 *)
calculate_try(h_active, v_active, refresh_rate, pixel_clock, reduced_blanking) ==
  IF refresh_rate # None
  THEN IF Val(refresh_rate) < 24 * RateScale \/ Val(refresh_rate) > 240 * RateScale
       THEN Error(<<"refresh_rate", Val(refresh_rate)>>)
       ELSE IF reduced_blanking
            THEN calculate_reduced_blanking(h_active, v_active, Val(refresh_rate))
            ELSE calculate_standard_cvt(h_active, v_active, Val(refresh_rate))
  ELSE IF Val(pixel_clock) <= 0
       THEN Error(<<"pixel_clock", Val(pixel_clock)>>)
       ELSE calculate_from_pixel_clock(h_active, v_active, Val(pixel_clock),
                                       reduced_blanking)

(* calculate with the bounds of h_active exclusive *)
calculate_exclusive_bounds(h_active, v_active, refresh_rate, pixel_clock, reduced_blanking) ==
  IF h_active <= 640 \/ h_active >= 7680
  THEN Error(<<"h_active", h_active>>)
  ELSE IF v_active < 480 \/ v_active > 4320
  THEN Error(<<"v_active", v_active>>)
  ELSE IF refresh_rate # None /\ pixel_clock # None
  THEN Error(<<"only_one">>)
  ELSE IF refresh_rate = None /\ pixel_clock = None
  THEN Error(<<"need_one">>)
  ELSE Caught(calculate_try(h_active, v_active, refresh_rate, pixel_clock,
                            reduced_blanking))

calculate(h_active, v_active, refresh_rate, pixel_clock, reduced_blanking) ==
  IF h_active < 640 \/ h_active > 7680
  THEN Error(<<"h_active", h_active>>)
  ELSE IF v_active < 480 \/ v_active > 4320
  THEN Error(<<"v_active", v_active>>)
  ELSE IF refresh_rate # None /\ pixel_clock # None
  THEN Error(<<"only_one">>)
  ELSE IF refresh_rate = None /\ pixel_clock = None
  THEN Error(<<"need_one">>)
  ELSE Caught(calculate_try(h_active, v_active, refresh_rate, pixel_clock,
                            reduced_blanking))

(* calculate of tests/test_calculator_only.py, the three-mode entry point, *)
(* for a request that supplies both refresh_rate and pixel_clock           *)
calculate_both(h_active, v_active, refresh_rate, pixel_clock, reduced_blanking) ==
  IF h_active < 640 \/ h_active > 7680
  THEN Error(<<"h_active", h_active>>)
  ELSE IF v_active < 480 \/ v_active > 4320
  THEN Error(<<"v_active", v_active>>)
  ELSE IF refresh_rate < 24 * RateScale \/ refresh_rate > 240 * RateScale
  THEN Error(<<"refresh_rate", refresh_rate>>)
  ELSE IF pixel_clock <= 0
  THEN Error(<<"pixel_clock", pixel_clock>>)
  ELSE Caught(calculate_with_both_params(h_active, v_active, refresh_rate,
                                         pixel_clock, reduced_blanking))

----------------------------------------------------------------------------
(* Requests *)

Prefix(list, n) == {list[i] : i \in 1..(IF n < Len(list) THEN n ELSE Len(list))}

HList == <<1920, 1027, 1285, 3840, 1925, 2560, 1366>>
VList == <<1080, 720, 2160, 1440, 768>>
RList == <<6000, 5994, 12000, 5000, 14400>>
PList == <<148500, 13850, 297004, 25180, 533250>>

HActives == {100, 639, 640, 7680, 7681} \cup Prefix(HList, MaxH)
VActives == {479, 480, 4320, 4321} \cup Prefix(VList, MaxV)
RefreshRates ==
  {None} \cup {Some(r) : r \in {1000, 2399, 2400, 2412, 24000, 24001} \cup Prefix(RList, MaxR)}
PixelClocks ==
  {None} \cup {Some(p) : p \in {0, -10000, 9600, 160000, Infinity} \cup Prefix(PList, MaxP)}

Requests ==
  [h_active : HActives, v_active : VActives, refresh_rate : RefreshRates,
   pixel_clock : PixelClocks, reduced_blanking : BOOLEAN]

NoResult == [pending |-> TRUE]

generator_vars == <<timing_params, u_vesa_timing_gen, tb_vesa_timing_gen>>

TimingFields ==
  {"h_total", "h_blanking", "h_front_porch", "h_sync_pulse", "h_back_porch",
   "v_total", "v_blanking", "v_front_porch", "v_sync_pulse", "v_back_porch"}

----------------------------------------------------------------------------
(* The text generator: vesa_timing_rtl_template.py and the demo *)

(* int.bit_length of a non-negative int *)
RECURSIVE bit_length(_)
bit_length(n) == IF n = 0 THEN 0 ELSE 1 + bit_length(n \div 2)

h_counter_width_of_total(p) == bit_length(p.h_total)

(* lines 45-47: the widths of the two counters, [width-1:0] in the ports   *)
h_counter_width(p) == bit_length(p.h_total - 1)

v_counter_width(p) == bit_length(p.v_total - 1)

(* lines 110-115: the localparams of the sync boundaries *)
H_SYNC_START(p) == p.h_active + p.h_front_porch

H_SYNC_END(p) == H_SYNC_START(p) + p.h_sync_pulse

V_SYNC_START(p) == p.v_active + p.v_front_porch

V_SYNC_END(p) == V_SYNC_START(p) + p.v_sync_pulse

(* the registers while rst_n is low (the if (!rst_n) branches) *)
reset_values ==
  [h_count |-> 0, v_count |-> 0, hsync |-> 1, vsync |-> 1, de |-> 0, frame_valid |-> 0]

next_h_count_late_wrap(p, u) ==
  IF u.h_count = p.h_total THEN 0
  ELSE (u.h_count + 1) % (2 ^ h_counter_width(p))

(* lines 121-131: the horizontal counter, a register of h_counter_width    *)
(* bits                                                                    *)
next_h_count(p, u) ==
  IF u.h_count = p.h_total - 1 THEN 0
  ELSE (u.h_count + 1) % (2 ^ h_counter_width(p))

(* lines 137-149: the vertical counter, a register of v_counter_width bits *)
next_v_count(p, u) ==
  IF u.h_count = p.h_total - 1
  THEN IF u.v_count = p.v_total - 1 THEN 0
       ELSE (u.v_count + 1) % (2 ^ v_counter_width(p))
  ELSE u.v_count

(* lines 155-165 *)
next_hsync(p, u) ==
  IF u.h_count >= H_SYNC_START(p) /\ u.h_count < H_SYNC_END(p) THEN 0 ELSE 1

(* lines 155-165 over one line of H_TOTAL clocks: the clocks for which     *)
(* hsync is driven low, and the clocks of the line after the pulse         *)
hsync_low_clocks(p) ==
  Cardinality({h \in 0..(p.h_total - 1) : next_hsync(p, [h_count |-> h]) = 0})

clocks_after_hsync(p) ==
  Cardinality({h \in 0..(p.h_total - 1) : h >= H_SYNC_END(p)})

(* lines 171-181 *)
next_vsync(p, u) ==
  IF u.v_count >= V_SYNC_START(p) /\ u.v_count < V_SYNC_END(p) THEN 0 ELSE 1

(* lines 187-197 *)
next_de(p, u) ==
  IF u.h_count < p.h_active /\ u.v_count < p.v_active THEN 1 ELSE 0

(* lines 203-213 *)
next_frame_valid(p, u) == IF u.v_count < p.v_active THEN 1 ELSE 0

(* one posedge clk with rst_n high: every always block reads the old       *)
(* values and its non-blocking assignment takes effect after all of them   *)
posedge_clk(p, u) ==
  [h_count |-> next_h_count(p, u), v_count |-> next_v_count(p, u),
   hsync |-> next_hsync(p, u), vsync |-> next_vsync(p, u),
   de |-> next_de(p, u), frame_valid |-> next_frame_valid(p, u)]

(* generate_testbench: clk_period = 1000.0 / pixel_clock raises on a pixel *)
(* clock of 0.0; CLK_PERIOD is written with three decimals of a ns, which  *)
(* is a whole number of ps.  The rest is the testbench at time 0: reset    *)
(* asserted, no clock edge yet, no frame counted, no $finish scheduled.    *)
generate_testbench(p) ==
  IF p.pixel_clock = 0 THEN Raise("float division by zero")
  ELSE [CLK_PERIOD |-> RoundDiv(100000000, 1, p.pixel_clock),
        H_TOTAL |-> p.h_total, V_TOTAL |-> p.v_total,
        rst_n |-> 0, edges |-> 0, clocks |-> 0, frame_count |-> 0,
        finish_at |-> -1, finish |-> "running"]

(* forever #(CLK_PERIOD/2) clk = ~clk: the delay is rounded to the time    *)
(* precision of 1 ps, half a ps upwards                                    *)
half_period(tb) == (tb.CLK_PERIOD + 1) \div 2

(* the time of the next rising edge of clk, which starts at 0 *)
t_posedge(tb) == (2 * tb.edges + 1) * half_period(tb)

(* #(CLK_PERIOD * 10); rst_n = 1'b1 *)
t_release(tb) == tb.CLK_PERIOD * 10

(* #(CLK_PERIOD * H_TOTAL * V_TOTAL * 5) of the timeout block *)
t_timeout(tb) == tb.CLK_PERIOD * tb.H_TOTAL * tb.V_TOTAL * 5

(* the times of the events the simulator has scheduled *)
scheduled(tb) ==
  {t_posedge(tb), t_timeout(tb)}
    \cup (IF tb.rst_n = 0 THEN {t_release(tb)} ELSE {})
    \cup (IF tb.finish_at >= 0 THEN {tb.finish_at} ELSE {})

(* an event at time t is taken when nothing is scheduled before it; events *)
(* of the same time are taken in any order                                 *)
is_next(tb, t) ==
  /\ ~Raised(tb)
  /\ tb.finish = "running"
  /\ \A s \in scheduled(tb) : t <= s

(* the monitor block at a falling edge of vsync (it has passed             *)
(* @(posedge rst_n) and is not inside its final delay): frame_count is     *)
(* incremented and, from the third frame, $finish is scheduled after      *)
(* #(CLK_PERIOD * H_TOTAL * 10)                                            *)
monitor(tb, t, negedge_vsync) ==
  IF negedge_vsync /\ tb.rst_n = 1 /\ tb.finish_at < 0
  THEN [tb EXCEPT !.frame_count = @ + 1,
                  !.finish_at = IF tb.frame_count + 1 >= 3
                                THEN t + tb.CLK_PERIOD * tb.H_TOTAL * 10
                                ELSE @]
  ELSE tb

(* a small timing_params dictionary: horizontal and vertical parts *)
HTimingList ==
  <<[h_active |-> 4, h_front_porch |-> 1, h_sync_pulse |-> 2, h_back_porch |-> 1, h_total |-> 8],
    [h_active |-> 2, h_front_porch |-> 1, h_sync_pulse |-> 1, h_back_porch |-> 1, h_total |-> 5],
    [h_active |-> 1, h_front_porch |-> 1, h_sync_pulse |-> 1, h_back_porch |-> 1, h_total |-> 4]>>

VTimingList ==
  <<[v_active |-> 2, v_front_porch |-> 1, v_sync_pulse |-> 1, v_back_porch |-> 1, v_total |-> 5],
    [v_active |-> 4, v_front_porch |-> 1, v_sync_pulse |-> 2, v_back_porch |-> 1, v_total |-> 8],
    [v_active |-> 1, v_front_porch |-> 0, v_sync_pulse |-> 1, v_back_porch |-> 0, v_total |-> 2]>>

merge(f, g) == [k \in DOMAIN f \cup DOMAIN g |-> IF k \in DOMAIN g THEN g[k] ELSE f[k]]

SmallTimings ==
  {merge(merge(h, v), [pixel_clock |-> 10000, refresh_rate |-> 6000]) :
     h \in Prefix(HTimingList, MaxT), v \in Prefix(VTimingList, MaxT)}

(* generate_timing_rtl of the demo and test_rtl_generation: the caller's   *)
(* h_active, v_active and refresh_rate are added to the calculator's       *)
(* result before it goes to the generator                                  *)
demo_timing_params(results, r) ==
  merge(results,
        merge([h_active |-> r.h_active, v_active |-> r.v_active],
              IF r.refresh_rate = None THEN << >>
              ELSE [refresh_rate |-> Val(r.refresh_rate)]))

(* calculate results handed to the generator for simulation *)
BenchRequests ==
  {[h_active |-> 640, v_active |-> 480, refresh_rate |-> None,
    pixel_clock |-> Some(4), reduced_blanking |-> TRUE]}

----------------------------------------------------------------------------
(* The state machine *)

(* the v_total the loops of lines 452-473 and 507-525 can visit when the   *)
(* budget is a whole number of lines at this pixel clock: the seed, the    *)
(* exact number of lines and one line more                                 *)
exact_v_totals(m, v_active, reduced_blanking) ==
  IF m.r # 0 THEN {}
  ELSE IF reduced_blanking
  THEN {v_active + 17, v_active + Max(m.q, 17), v_active + Max(m.q + 1, 17)}
  ELSE {v_active + 17, v_active + 7 + Max(m.q - 4, 1), v_active + 7 + Max(m.q - 3, 1)}

(* results['pixel_clock'] of a forward result as the pixel_clock argument  *)
(* of the next call; 0 when the result is an error                         *)
result_pixel_clock(results) ==
  IF IsError(results) THEN 0 ELSE results.pixel_clock * (ClockScale \div 100)

(* the pixel clock calculate(pixel_clock = ...) is called with for request *)
(* r: its own, or the one of its forward result; 0 when there is none      *)
reverse_pixel_clock(r) ==
  IF r.h_active < 640 \/ r.h_active > 7680 \/ r.v_active < 480 \/ r.v_active > 4320
  THEN 0
  ELSE IF r.refresh_rate = None /\ r.pixel_clock # None /\ r.pixel_clock # Some(Infinity)
  THEN Val(r.pixel_clock)
  ELSE IF r.refresh_rate # None /\ r.pixel_clock = None
          /\ Val(r.refresh_rate) >= 24 * RateScale /\ Val(r.refresh_rate) <= 240 * RateScale
  THEN result_pixel_clock(calculate(r.h_active, r.v_active, r.refresh_rate, None,
                                   r.reduced_blanking))
  ELSE 0

(* the v_total of request r whose math.ceil may land above the exact value *)
ceil_candidates(r, pixel_clock) ==
  IF pixel_clock <= 0 THEN {}
  ELSE exact_v_totals(MulDiv(IF r.reduced_blanking THEN RB_V_BLANK ELSE MIN_V_SYNC_BP,
                             pixel_clock,
                             ClockScale * reverse_horizontal(r.h_active, r.reduced_blanking).h_total),
                      r.v_active, r.reduced_blanking)

Init ==
  /\ req \in Requests
  /\ ceil_up \in SUBSET ceil_candidates(req, reverse_pixel_clock(req))
  /\ res = NoResult
  /\ fwd = NoResult
  /\ phase = "request"
  /\ timing_params = NoResult
  /\ u_vesa_timing_gen = NoResult
  /\ tb_vesa_timing_gen = NoResult
  /\ window = NoResult

(* calculator.calculate(h_active, v_active, refresh_rate, pixel_clock,     *)
(* reduced_blanking)                                                       *)
Calculate ==
  /\ phase = "request"
  /\ res' = calculate(req.h_active, req.v_active, req.refresh_rate,
                      req.pixel_clock, req.reduced_blanking)
  /\ phase' = "calculated"
  /\ UNCHANGED <<req, fwd, ceil_up, generator_vars, window>>

(* the three-mode calculate of tests/test_calculator_only.py on a request  *)
(* with both parameters                                                    *)
CalculateBoth ==
  /\ phase = "request"
  /\ req.refresh_rate # None
  /\ req.pixel_clock # None
  /\ res' = calculate_both(req.h_active, req.v_active, Val(req.refresh_rate),
                           Val(req.pixel_clock), req.reduced_blanking)
  /\ phase' = "both"
  /\ UNCHANGED <<req, fwd, ceil_up, generator_vars, window>>

IsForward == phase = "calculated" /\ ~IsError(res) /\ req.pixel_clock = None

(* results = calculate(refresh_rate = r); then                             *)
(* calculate(pixel_clock = results['pixel_clock']) on the same resolution  *)
FeedReverse ==
  /\ IsForward
  /\ fwd' = res
  /\ res' = calculate(req.h_active, req.v_active, None,
                      Some(res.pixel_clock * (ClockScale \div 100)),
                      req.reduced_blanking)
  /\ phase' = "reverse_of_forward"
  /\ UNCHANGED <<req, ceil_up, generator_vars, window>>

(* test_comparison_with_existing_modes: the forward pixel clock and the    *)
(* same refresh rate given to the dual-constraint mode                     *)
FeedBoth ==
  /\ IsForward
  /\ fwd' = res
  /\ res' = calculate_both(req.h_active, req.v_active, Val(req.refresh_rate),
                           res.pixel_clock * (ClockScale \div 100),
                           req.reduced_blanking)
  /\ phase' = "both_of_forward"
  /\ UNCHANGED <<req, ceil_up, generator_vars, window>>

(* generate_timing_rtl(h_active, v_active, refresh_rate, reduced_blanking) *)
(* of the demo: a forward calculation; on an error nothing is generated,   *)
(* otherwise the module and the testbench are written from the result with *)
(* the caller's h_active, v_active and refresh_rate added                  *)
GenerateTimingRtl ==
  /\ phase = "request"
  /\ req.refresh_rate # None
  /\ req.pixel_clock = None
  /\ res' = calculate(req.h_active, req.v_active, req.refresh_rate, None,
                      req.reduced_blanking)
  /\ IF IsError(res')
     THEN /\ phase' = "not_generated"
          /\ UNCHANGED generator_vars
     ELSE /\ phase' = "generated"
          /\ timing_params' = demo_timing_params(res', req)
          /\ u_vesa_timing_gen' = reset_values
          /\ tb_vesa_timing_gen' = generate_testbench(timing_params')
  /\ UNCHANGED <<req, fwd, ceil_up, window>>

Next == Calculate \/ CalculateBoth \/ FeedReverse \/ FeedBoth \/ GenerateTimingRtl

Spec == Init /\ [][Next]_vars

----------------------------------------------------------------------------
(* The generated module under its testbench *)

InitGenerated ==
  /\ u_vesa_timing_gen = reset_values
  /\ tb_vesa_timing_gen = generate_testbench(timing_params)
  /\ fwd = NoResult
  /\ window = NoResult

RtlInit ==
  /\ ceil_up = {}
  /\ \/ /\ req = NoResult
        /\ res = NoResult
        /\ phase = "dict"
        /\ timing_params \in SmallTimings
     \/ /\ req \in BenchRequests
        /\ res = calculate(req.h_active, req.v_active, req.refresh_rate,
                           req.pixel_clock, req.reduced_blanking)
        /\ ~IsError(res)
        /\ phase = "generated"
        /\ timing_params = demo_timing_params(res, req)
  /\ InitGenerated

(* a rising edge of clk: in reset the registers keep their reset values,   *)
(* otherwise every always block fires; the monitor sees vsync fall         *)
Posedge ==
  /\ is_next(tb_vesa_timing_gen, t_posedge(tb_vesa_timing_gen))
  /\ u_vesa_timing_gen' =
       IF tb_vesa_timing_gen.rst_n = 0 THEN reset_values
       ELSE posedge_clk(timing_params, u_vesa_timing_gen)
  /\ tb_vesa_timing_gen' =
       monitor([tb_vesa_timing_gen EXCEPT
                  !.edges = @ + 1,
                  !.clocks = IF tb_vesa_timing_gen.rst_n = 1 THEN @ + 1 ELSE @],
               t_posedge(tb_vesa_timing_gen),
               u_vesa_timing_gen.vsync = 1 /\ u_vesa_timing_gen'.vsync = 0)
  /\ UNCHANGED <<req, res, fwd, phase, ceil_up, timing_params, window>>

(* rst_n = 1'b1 after ten clock periods *)
ReleaseReset ==
  /\ is_next(tb_vesa_timing_gen, t_release(tb_vesa_timing_gen))
  /\ tb_vesa_timing_gen.rst_n = 0
  /\ tb_vesa_timing_gen' = [tb_vesa_timing_gen EXCEPT !.rst_n = 1]
  /\ UNCHANGED <<req, res, fwd, phase, ceil_up, timing_params, u_vesa_timing_gen, window>>

(* "Simulation completed successfully!" and $finish *)
Completed ==
  /\ ~Raised(tb_vesa_timing_gen)
  /\ tb_vesa_timing_gen.finish_at >= 0
  /\ is_next(tb_vesa_timing_gen, tb_vesa_timing_gen.finish_at)
  /\ tb_vesa_timing_gen' = [tb_vesa_timing_gen EXCEPT !.finish = "completed"]
  /\ UNCHANGED <<req, res, fwd, phase, ceil_up, timing_params, u_vesa_timing_gen, window>>

(* "ERROR: Simulation timeout!" and $finish *)
Timeout ==
  /\ is_next(tb_vesa_timing_gen, t_timeout(tb_vesa_timing_gen))
  /\ tb_vesa_timing_gen' = [tb_vesa_timing_gen EXCEPT !.finish = "timeout"]
  /\ UNCHANGED <<req, res, fwd, phase, ceil_up, timing_params, u_vesa_timing_gen, window>>

RtlNext == Posedge \/ ReleaseReset \/ Completed \/ Timeout

(* the simulator always takes the next scheduled event *)
RtlSpec == RtlInit /\ [][RtlNext]_vars /\ WF_vars(RtlNext)

----------------------------------------------------------------------------
(* The window: MainWindow of vesa_timing_calculator.py *)

(* the text of a cell of column 1 of the results table: "", a formatted    *)
(* value with its unit (floats with two decimals, which is the value in    *)
(* 1/100), or the error text                                               *)
EmptyText == [text |-> ""]

(* lines 890-902: the keys and units of the 11 rows *)
parameters ==
  <<<<"pixel_clock", "MHz">>, <<"h_total", "pixels">>, <<"h_blanking", "pixels">>,
    <<"h_front_porch", "pixels">>, <<"h_sync_pulse", "pixels">>,
    <<"h_back_porch", "pixels">>, <<"v_total", "lines">>, <<"v_blanking", "lines">>,
    <<"v_front_porch", "lines">>, <<"v_sync_pulse", "lines">>, <<"v_back_porch", "lines">>>>

(* lines 850-856 *)
presets ==
  [i \in 1..5 |-> <<<<1280, 720, 60 * RateScale>>, <<1920, 1080, 60 * RateScale>>,
                    <<2560, 1440, 60 * RateScale>>, <<3840, 2160, 60 * RateScale>>,
                    <<1920, 1200, 60 * RateScale>>>>[i]]

(* setRange of the four spin boxes; the double spin boxes have two         *)
(* decimals, so their values are in 1/100 Hz and 1/100 MHz                 *)
setRange ==
  [h_active_spinbox |-> <<640, 7680>>,
   v_active_spinbox |-> <<480, 4320>>,
   refresh_rate_spinbox |-> <<24 * RateScale, 240 * RateScale>>,
   pixel_clock_spinbox |-> <<10 * 100, 1000 * 100>>]

(* __init__: the widgets after _create_input_panel and                     *)
(* _create_output_panel; no calculation has been made                      *)
MainWindow ==
  [mode_combobox |-> 0,
   h_active_spinbox |-> 1920,
   v_active_spinbox |-> 1080,
   refresh_rate_spinbox |-> 60 * RateScale,
   pixel_clock_spinbox |-> 14850,
   reduced_blanking_checkbox |-> FALSE,
   refresh_rate_enabled |-> TRUE,
   pixel_clock_enabled |-> FALSE,
   preset_combobox |-> 0,
   results_table |-> [i \in 0..10 |-> EmptyText],
   statusBar |-> [message |-> "ready"],
   event |-> "__init__",
   calls |-> << >>]

show_error_first_row_only(w, message) ==
  [w EXCEPT !.statusBar = [error |-> message],
            !.results_table = [@ EXCEPT ![0] = [error |-> message]]]

(* _show_error *)
show_error(w, message) ==
  [w EXCEPT !.statusBar = [error |-> message],
            !.results_table = [i \in 0..10 |-> IF i = 0 THEN [error |-> message]
                                               ELSE EmptyText]]

(* _update_results_table: only the rows whose key is in results are written *)
update_results_table(w, results) ==
  [w EXCEPT !.results_table =
     [i \in 0..10 |->
        IF parameters[i + 1][1] \in DOMAIN results
        THEN [value |-> results[parameters[i + 1][1]], unit |-> parameters[i + 1][2]]
        ELSE w.results_table[i]]]

RECURSIVE on_calculate(_)

(* _on_input_changed *)
on_input_changed(w) == on_calculate(w)

(* widget.setValue(value): the value is bound to the range of the widget;  *)
(* valueChanged is emitted when the value changes and the signals of the   *)
(* widget are not blocked, and it is connected to _on_input_changed        *)
setValue(w, widget, value, blockSignals) ==
  LET minimum == setRange[widget][1]
      maximum == setRange[widget][2]
      bounded == IF value < minimum THEN minimum
                 ELSE IF value > maximum THEN maximum ELSE value
  IN IF blockSignals \/ bounded = w[widget]
     THEN [w EXCEPT ![widget] = bounded]
     ELSE on_input_changed([w EXCEPT ![widget] = bounded])

overwrite_refresh_rate_unblocked(w, refresh_rate) ==
  setValue(w, "refresh_rate_spinbox", refresh_rate, FALSE)

(* lines 811-815: the refresh rate field is overwritten with the derived   *)
(* rate between blockSignals(True) and blockSignals(False)                 *)
overwrite_refresh_rate(w, refresh_rate) ==
  setValue(w, "refresh_rate_spinbox", refresh_rate, TRUE)

(* lines 801-819: what _on_calculate does with the results *)
show_results(w, mode, results) ==
  IF IsError(results) THEN show_error(w, results.message)
  ELSE [(IF mode = 1 /\ "refresh_rate" \in DOMAIN results
         THEN overwrite_refresh_rate(update_results_table(w, results), results.refresh_rate)
         ELSE update_results_table(w, results))
        EXCEPT !.statusBar = [message |-> "done"]]

(* lines 780-799: the arguments _on_calculate gives to calculate; the      *)
(* other of refresh_rate and pixel_clock stays at its default None         *)
calculate_arguments(w) ==
  [h_active |-> w.h_active_spinbox,
   v_active |-> w.v_active_spinbox,
   refresh_rate |-> IF w.mode_combobox = 0 THEN Some(w.refresh_rate_spinbox) ELSE None,
   pixel_clock |-> IF w.mode_combobox = 0 THEN None
                   ELSE Some(w.pixel_clock_spinbox * (ClockScale \div 100)),
   reduced_blanking |-> w.reduced_blanking_checkbox]

calculator_calculate(a) ==
  calculate(a.h_active, a.v_active, a.refresh_rate, a.pixel_clock, a.reduced_blanking)

(* _on_calculate; calls records each call of calculator.calculate *)
on_calculate(w) ==
  show_results([w EXCEPT !.calls = Append(@, calculate_arguments(w))],
               w.mode_combobox, calculator_calculate(calculate_arguments(w)))

on_mode_changed_keeps_refresh_rate(w, index) ==
  on_calculate([w EXCEPT !.pixel_clock_enabled = (index # 0)])

(* _on_mode_changed *)
on_mode_changed(w, index) ==
  on_calculate([w EXCEPT !.refresh_rate_enabled = (index = 0),
                         !.pixel_clock_enabled = (index # 0)])

(* _on_preset_selected *)
on_preset_selected(w, index) ==
  IF index = 0 THEN w
  ELSE IF index \in DOMAIN presets
  THEN on_calculate(
         setValue(setValue(setValue(w, "h_active_spinbox", presets[index][1], TRUE),
                           "v_active_spinbox", presets[index][2], TRUE),
                  "refresh_rate_spinbox", presets[index][3], TRUE))
  ELSE w

(* _copy_results: the rows that have a text go to the clipboard of the     *)
(* application, which is not part of the window; the window itself only    *)
(* changes its status bar                                                  *)
copy_results(w) ==
  IF \A i \in 0..10 : w.results_table[i] = EmptyText
  THEN [w EXCEPT !.statusBar = [message |-> "nothing to copy"]]
  ELSE [w EXCEPT !.statusBar = [message |-> "copied"]]

(* the values a user enters in the spin boxes (100 and 99999 are outside   *)
(* the ranges of their widgets) and the presets a user picks               *)
EnteredHActives == {1027, 100}
EnteredVActives == {768}
EnteredRefreshRates == {2400, 99999}
EnteredPixelClocks == {1000, 2518}

Presets == 0..MaxPreset

(* the window when the handler of a user event starts *)
begin(w, name) == [w EXCEPT !.event = name, !.calls = << >>]

WindowInit ==
  /\ window = MainWindow
  /\ req = NoResult
  /\ res = NoResult
  /\ fwd = NoResult
  /\ phase = "window"
  /\ ceil_up = {}
  /\ timing_params = NoResult
  /\ u_vesa_timing_gen = NoResult
  /\ tb_vesa_timing_gen = NoResult

calculator_vars == <<req, res, fwd, phase, ceil_up>>

(* the user changes the value of h_active *)
ChangeHActive ==
  /\ \E value \in EnteredHActives :
       /\ setValue(window, "h_active_spinbox", value, TRUE) # window
       /\ window' = setValue(begin(window, "h_active"), "h_active_spinbox", value, FALSE)
  /\ UNCHANGED <<calculator_vars, generator_vars>>

(* the user changes the value of v_active *)
ChangeVActive ==
  /\ \E value \in EnteredVActives :
       /\ setValue(window, "v_active_spinbox", value, TRUE) # window
       /\ window' = setValue(begin(window, "v_active"), "v_active_spinbox", value, FALSE)
  /\ UNCHANGED <<calculator_vars, generator_vars>>

(* the user changes the value of refresh_rate, which takes input only      *)
(* while it is enabled                                                     *)
ChangeRefreshRate ==
  /\ window.refresh_rate_enabled
  /\ \E value \in EnteredRefreshRates :
       /\ setValue(window, "refresh_rate_spinbox", value, TRUE) # window
       /\ window' = setValue(begin(window, "refresh_rate"), "refresh_rate_spinbox", value, FALSE)
  /\ UNCHANGED <<calculator_vars, generator_vars>>

(* the user changes the value of pixel_clock, which takes input only while *)
(* it is enabled                                                           *)
ChangePixelClock ==
  /\ window.pixel_clock_enabled
  /\ \E value \in EnteredPixelClocks :
       /\ setValue(window, "pixel_clock_spinbox", value, TRUE) # window
       /\ window' = setValue(begin(window, "pixel_clock"), "pixel_clock_spinbox", value, FALSE)
  /\ UNCHANGED <<calculator_vars, generator_vars>>

(* the user toggles the reduced blanking box: stateChanged is connected to *)
(* _on_input_changed                                                       *)
ToggleReducedBlanking ==
  /\ window' = on_input_changed([begin(window, "reduced_blanking") EXCEPT
                                   !.reduced_blanking_checkbox = ~@])
  /\ UNCHANGED <<calculator_vars, generator_vars>>

(* the user picks the other mode: currentIndexChanged is connected to      *)
(* _on_mode_changed                                                        *)
ChangeMode ==
  /\ \E index \in {0, 1} :
       /\ index # window.mode_combobox
       /\ window' = on_mode_changed([begin(window, "mode") EXCEPT !.mode_combobox = index],
                                    index)
  /\ UNCHANGED <<calculator_vars, generator_vars>>

(* the user picks another entry of the preset box: currentIndexChanged is  *)
(* connected to _on_preset_selected                                        *)
SelectPreset ==
  /\ \E index \in Presets :
       /\ index # window.preset_combobox
       /\ window' = on_preset_selected([begin(window, "preset") EXCEPT !.preset_combobox = index],
                                       index)
  /\ UNCHANGED <<calculator_vars, generator_vars>>

(* the user clicks the calculate button: clicked is connected to           *)
(* _on_calculate                                                           *)
ClickCalculate ==
  /\ window' = on_calculate(begin(window, "calculate_button"))
  /\ UNCHANGED <<calculator_vars, generator_vars>>

(* window._show_error(test_message) of test_error_display_in_table *)
ShowError ==
  /\ window' = show_error(begin(window, "_show_error"), "test_message")
  /\ UNCHANGED <<calculator_vars, generator_vars>>

(* the user clicks the copy button: clicked is connected to _copy_results  *)
ClickCopy ==
  /\ window' = copy_results(begin(window, "copy_button"))
  /\ UNCHANGED <<calculator_vars, generator_vars>>

WindowNext ==
  \/ ChangeHActive \/ ChangeVActive \/ ChangeRefreshRate \/ ChangePixelClock
  \/ ToggleReducedBlanking \/ ChangeMode \/ SelectPreset \/ ClickCalculate
  \/ ClickCopy \/ ShowError

WindowSpec == WindowInit /\ [][WindowNext]_vars

----------------------------------------------------------------------------
(* Properties *)

(* C1: calculate accepts a request exactly when its inputs are inside the  *)
(* inclusive ranges h_active in [640, 7680], v_active in [480, 4320],      *)
(* refresh_rate in [24, 240] (and pixel_clock positive and finite): for a  *)
(* request with one of refresh_rate and pixel_clock, and for the           *)
(* three-mode entry point on a request with both, the result is an error   *)
(* exactly when a value is outside its range; in every mode an h_active   *)
(* outside its range is rejected with the error naming h_active, and with  *)
(* h_active inside, a v_active outside its range with the error naming     *)
(* v_active; a refresh_rate outside its range is rejected naming           *)
(* refresh_rate.                                                           *)
C1_RangesDecideAcceptance ==
  LET h_ok == req.h_active >= 640 /\ req.h_active <= 7680
      v_ok == req.v_active >= 480 /\ req.v_active <= 4320
      has_r == req.refresh_rate # None
      has_p == req.pixel_clock # None
      r_ok == has_r => /\ Val(req.refresh_rate) >= 24 * RateScale
                       /\ Val(req.refresh_rate) <= 240 * RateScale
      p_ok == has_p => Val(req.pixel_clock) > 0 /\ Val(req.pixel_clock) # Infinity
      named(kind) == IsError(res) /\ res.message = <<kind, req[kind]>>
  IN phase \in {"calculated", "both"} =>
       /\ ~h_ok => named("h_active")
       /\ h_ok /\ ~v_ok => named("v_active")
       /\ (phase = "both" \/ has_r # has_p) =>
            /\ h_ok /\ v_ok /\ ~r_ok =>
                 IsError(res) /\ res.message = <<"refresh_rate", Val(req.refresh_rate)>>
            /\ IsError(res) <=> ~(h_ok /\ v_ok /\ r_ok /\ p_ok)

(* C1 witness: the four inclusive boundary values are accepted together. *)
C1_Witness ==
  /\ phase = "calculated"
  /\ req.h_active = 7680
  /\ req.v_active = 480
  /\ req.refresh_rate = Some(240 * RateScale)
  /\ req.pixel_clock = None
  /\ ~IsError(res)
  /\ res.h_total > 7680

(* C2: the validation checks run in the order h_active range, v_active     *)
(* range, both parameters absent, then refresh_rate range and              *)
(* pixel_clock > 0, and the error returned is the one of the first check   *)
(* the request violates.                                                   *)
C2_FirstViolatedCheckReported ==
  LET h_ok == req.h_active >= 640 /\ req.h_active <= 7680
      v_ok == req.v_active >= 480 /\ req.v_active <= 4320
      has_r == req.refresh_rate # None
      has_p == req.pixel_clock # None
      r_ok == has_r => /\ Val(req.refresh_rate) >= 24 * RateScale
                       /\ Val(req.refresh_rate) <= 240 * RateScale
      p_ok == has_p => Val(req.pixel_clock) > 0
      first == IF ~h_ok THEN "h_active"
               ELSE IF ~v_ok THEN "v_active"
               ELSE IF ~has_r /\ ~has_p THEN "need_one"
               ELSE IF ~r_ok THEN "refresh_rate"
               ELSE IF ~p_ok THEN "pixel_clock"
               ELSE "none"
  IN phase = "calculated" /\ first # "none" =>
       IsError(res) /\ res.message[1] = first

(* C3: every error result of calculate (range error, mode error, wrapped   *)
(* exception) carries the error flag and the message and nothing else: a   *)
(* result never has an error flag next to timing fields.                   *)
C3_ErrorHasNoTimingFields ==
  phase # "request" /\ IsError(res) =>
    /\ DOMAIN res = {"error", "message"}
    /\ res.error = TRUE

(* C3 witness: an exception raised inside the reverse calculator, wrapped. *)
C3_Witness ==
  /\ phase = "calculated"
  /\ IsError(res)
  /\ res.message = <<"exception", "float division by zero">>
  /\ req.h_active = 1920
  /\ req.v_active = 1080

(* C4: calculate dispatches on which of refresh_rate and pixel_clock are   *)
(* supplied: both (valid) gives the result of the dual-constraint          *)
(* calculator, not an error; refresh_rate alone the forward calculator of  *)
(* the blanking flag; pixel_clock alone the reverse calculator.            *)
C4_DispatchOnSuppliedParameters ==
  LET h_ok == req.h_active >= 640 /\ req.h_active <= 7680
      v_ok == req.v_active >= 480 /\ req.v_active <= 4320
      has_r == req.refresh_rate # None
      has_p == req.pixel_clock # None
      r_ok == has_r => /\ Val(req.refresh_rate) >= 24 * RateScale
                       /\ Val(req.refresh_rate) <= 240 * RateScale
      p_ok == has_p => Val(req.pixel_clock) > 0 /\ Val(req.pixel_clock) # Infinity
  IN phase = "calculated" /\ h_ok /\ v_ok /\ r_ok /\ p_ok =>
       /\ has_r /\ has_p =>
            /\ ~IsError(res)
            /\ res = calculate_with_both_params(req.h_active, req.v_active,
                       Val(req.refresh_rate), Val(req.pixel_clock),
                       req.reduced_blanking)
       /\ has_r /\ ~has_p =>
            res = IF req.reduced_blanking
                  THEN calculate_reduced_blanking(req.h_active, req.v_active,
                                                  Val(req.refresh_rate))
                  ELSE calculate_standard_cvt(req.h_active, req.v_active,
                                              Val(req.refresh_rate))
       /\ ~has_r /\ has_p =>
            res = calculate_from_pixel_clock(req.h_active, req.v_active,
                                             Val(req.pixel_clock),
                                             req.reduced_blanking)

(* C5: additivity.  Every non-error result of every mode has               *)
(* h_blanking = h_front_porch + h_sync_pulse + h_back_porch,               *)
(* v_blanking = v_front_porch + v_sync_pulse + v_back_porch and            *)
(* v_total = v_active + v_blanking.                                        *)
C5_Additivity ==
  phase # "request" /\ ~IsError(res) =>
    /\ res.h_blanking = res.h_front_porch + res.h_sync_pulse + res.h_back_porch
    /\ res.v_blanking = res.v_front_porch + res.v_sync_pulse + res.v_back_porch
    /\ res.v_total = req.v_active + res.v_blanking

(* C5 witness: a reverse result whose loop moved the back porch off its    *)
(* seed.                                                                   *)
C5_Witness ==
  /\ phase = "calculated"
  /\ req.refresh_rate = None
  /\ ~IsError(res)
  /\ ~req.reduced_blanking
  /\ res.v_back_porch > 10
  /\ res.v_total = req.v_active + 3 + 4 + res.v_back_porch

(* C6: granularity.  Every non-error result of every mode has              *)
(* h_total = floor(h_active / 8) * 8 + h_blanking, so h_total - h_blanking *)
(* is a multiple of 8 also when h_active is not; a standard result has     *)
(* h_sync_pulse and h_back_porch multiples of 8.                           *)
C6_Granularity ==
  phase # "request" /\ ~IsError(res) =>
    /\ res.h_total = (req.h_active \div 8) * 8 + res.h_blanking
    /\ (res.h_total - res.h_blanking) % 8 = 0
    /\ ~req.reduced_blanking =>
         res.h_sync_pulse % 8 = 0 /\ res.h_back_porch % 8 = 0

(* C6 witness: a standard forward result for an h_active that is not a     *)
(* multiple of 8.                                                          *)
C6_Witness ==
  /\ phase = "calculated"
  /\ req.h_active = 1027
  /\ req.pixel_clock = None
  /\ ~req.reduced_blanking
  /\ ~IsError(res)
  /\ res.h_total = 1280
  /\ res.h_sync_pulse = 24

(* C7 as stated: for every non-error result                                *)
(* |pixel_clock * 1e6 - h_total * v_total * refresh_rate| < 1 (Hz), with   *)
(* the returned 2-decimal pixel_clock, and refresh_rate the request's in   *)
(* forward mode and the returned one in reverse and dual mode.  With       *)
(* pixel_clock in 1/100 MHz and refresh_rate in 1/100 Hz this is           *)
(* |pixel_clock * 10^6 - h_total * v_total * refresh_rate| < 100.          *)
C7_ClockWithinOneHz ==
  phase # "request" /\ ~IsError(res) =>
    LET rate == IF "refresh_rate" \in DOMAIN res
                THEN res.refresh_rate ELSE Val(req.refresh_rate)
        m == MulDiv(res.h_total * res.v_total, rate, 1000000)
        d == res.pixel_clock - m.q
    IN \/ d = 0 /\ m.r < 100
       \/ d = 1 /\ 1000000 - m.r < 100

(* C7 as amended: the two sides agree up to the rounding of the 2-decimal  *)
(* outputs.  A forward result has                                          *)
(*   |pixel_clock * 1e6 - h_total * v_total * refresh_rate| <= 5000 (Hz),  *)
(* half a unit of the second decimal of a MHz; a reverse result, with its  *)
(* returned refresh_rate, has the difference at most                       *)
(*   5000 + 0.005 * h_total * v_total.                                     *)
C7_ClockWithinRounding ==
  phase \in {"calculated", "reverse_of_forward"} /\ ~IsError(res) =>
    LET reverse == "refresh_rate" \in DOMAIN res
        rate == IF reverse THEN res.refresh_rate ELSE Val(req.refresh_rate)
        total == res.h_total * res.v_total
        m == MulDiv(total, rate, 1000000)
        d == res.pixel_clock - m.q
        diff == d * 1000000 - m.r
        abs == IF diff < 0 THEN 0 - diff ELSE diff
    IN /\ d >= -100 /\ d <= 100
       /\ 2 * abs <= 1000000 + (IF reverse THEN total ELSE 0)

(* C7 witness: a forward and a reverse result that are more than 1 Hz off. *)
C7_Witness ==
  /\ phase = "reverse_of_forward"
  /\ ~IsError(res)
  /\ LET m == MulDiv(fwd.h_total * fwd.v_total, Val(req.refresh_rate), 1000000)
     IN m.r >= 100 /\ m.r <= 1000000 - 100
  /\ LET m == MulDiv(res.h_total * res.v_total, res.refresh_rate, 1000000)
     IN m.r >= 100 /\ m.r <= 1000000 - 100

C9_ReverseRoundTrip ==
  phase = "reverse_of_forward" =>
    /\ ~IsError(res)
    /\ res.refresh_rate - Val(req.refresh_rate) < 10
    /\ Val(req.refresh_rate) - res.refresh_rate < 10

(* C10: the standard forward calculation is a single pass from a seed back *)
(* porch of 10 lines: v_front_porch = 3, v_sync_pulse = 4,                 *)
(* v_back_porch = max(ceil(550 * refresh_rate * (v_active + 17) / 1e6) - 4, 1), *)
(* v_total = v_active + 7 + v_back_porch and                               *)
(* pixel_clock = round2(h_total * v_total * refresh_rate / 1e6); 1920x1080 *)
(* at 60 Hz gives v_back_porch = 33, v_blanking = 40, v_total = 1120,      *)
(* h_total = 2200, h_front_porch = 128, h_sync_pulse = 24,                 *)
(* h_back_porch = 128, pixel_clock = 147.84.                               *)
(* (550 * refresh_rate / 1e6 with refresh_rate in 1/100 Hz is              *)
(* 11 * refresh_rate / 2000000.)                                           *)
C10_StandardForwardSinglePass ==
  phase = "calculated" /\ ~IsError(res) /\ req.pixel_clock = None
    /\ ~req.reduced_blanking =>
    LET rate == Val(req.refresh_rate)
        lines == (11 * rate * (req.v_active + 17) + 2000000 - 1) \div 2000000
    IN /\ res.v_front_porch = 3
       /\ res.v_sync_pulse = 4
       /\ res.v_back_porch = (IF lines - 4 > 1 THEN lines - 4 ELSE 1)
       /\ res.v_total = req.v_active + 7 + res.v_back_porch
       /\ res.pixel_clock = RoundDiv(res.h_total, res.v_total * rate, 1000000)
       /\ req.h_active = 1920 /\ req.v_active = 1080 /\ rate = 6000 =>
            /\ res.v_back_porch = 33
            /\ res.v_blanking = 40
            /\ res.v_total = 1120
            /\ res.h_total = 2200
            /\ res.h_front_porch = 128
            /\ res.h_sync_pulse = 24
            /\ res.h_back_porch = 128
            /\ res.pixel_clock = 14784

(* C10 witness: the standard forward result for 1920x1080 at 60 Hz. *)
C10_Witness ==
  /\ phase = "calculated"
  /\ req.h_active = 1920
  /\ req.v_active = 1080
  /\ req.refresh_rate = Some(6000)
  /\ req.pixel_clock = None
  /\ ~req.reduced_blanking
  /\ ~IsError(res)
  /\ res.pixel_clock = 14784
  /\ res.v_back_porch = 33

(* C11: the reduced-blanking forward calculation is a single pass from the *)
(* 17-line seed: v_blanking = max(ceil(460 * refresh_rate * (v_active +    *)
(* 17) / 1e6), 17), v_back_porch = v_blanking - 11, v_total = v_active +   *)
(* v_blanking, h_total = floor(h_active / 8) * 8 + 160 and pixel_clock =   *)
(* round2(h_total * v_total * refresh_rate / 1e6); 1920x1080 at 60 Hz      *)
(* gives v_blanking = 31, v_back_porch = 20, v_total = 1111, h_total =     *)
(* 2080, pixel_clock = 138.65.                                             *)
(* (460 * refresh_rate / 1e6 with refresh_rate in 1/100 Hz is              *)
(* 23 * refresh_rate / 5000000.)                                           *)
C11_ReducedBlankingForwardSinglePass ==
  phase = "calculated" /\ ~IsError(res) /\ req.pixel_clock = None
    /\ req.reduced_blanking =>
    LET rate == Val(req.refresh_rate)
        lines == CeilDiv(23 * (req.v_active + 17), rate, 5000000)
    IN /\ res.v_blanking = (IF lines > 17 THEN lines ELSE 17)
       /\ res.v_back_porch = res.v_blanking - 11
       /\ res.v_total = req.v_active + res.v_blanking
       /\ res.h_total = (req.h_active \div 8) * 8 + 160
       /\ res.pixel_clock = RoundDiv(res.h_total, res.v_total * rate, 1000000)
       /\ req.h_active = 1920 /\ req.v_active = 1080 /\ rate = 6000 =>
            /\ res.v_blanking = 31
            /\ res.v_back_porch = 20
            /\ res.v_total = 1111
            /\ res.h_total = 2080
            /\ res.pixel_clock = 13865

(* C11 witness: the reduced-blanking forward result for 1920x1080 at 60 Hz. *)
C11_Witness ==
  /\ phase = "calculated"
  /\ req.h_active = 1920
  /\ req.v_active = 1080
  /\ req.refresh_rate = Some(6000)
  /\ req.pixel_clock = None
  /\ req.reduced_blanking
  /\ ~IsError(res)
  /\ res.pixel_clock = 13865
  /\ res.v_blanking = 31

(* C12: every non-error reduced-blanking result, whether it comes from the *)
(* forward, the reverse or the dual calculation, has h_blanking = 160,     *)
(* h_sync_pulse = 32, h_back_porch = 80, h_front_porch = 48, v_sync_pulse  *)
(* = 8 and v_front_porch = 3.                                              *)
C12_ReducedBlankingConstants ==
  req.reduced_blanking =>
    \A r \in {res, fwd} :
      "h_blanking" \in DOMAIN r =>
        /\ r.h_blanking = 160
        /\ r.h_sync_pulse = 32
        /\ r.h_back_porch = 80
        /\ r.h_front_porch = 48
        /\ r.v_sync_pulse = 8
        /\ r.v_front_porch = 3

(* C12 witness: a reduced-blanking forward result was fed to the reverse   *)
(* calculation, and both results carry the fixed horizontal blanking.      *)
C12_Witness ==
  /\ phase = "reverse_of_forward"
  /\ req.reduced_blanking
  /\ ~IsError(res)
  /\ res.h_blanking = 160
  /\ fwd.h_blanking = 160
  /\ res.v_total # fwd.v_total

(* C13: the five horizontal fields of a result are a function of h_active  *)
(* and reduced_blanking only: every non-error result of the forward, the   *)
(* reverse or the dual calculation has the horizontal fields that the      *)
(* forward calculation returns for the same h_active and reduced_blanking  *)
(* at 480 lines and 60 Hz, whatever its own v_active, refresh_rate or      *)
(* pixel_clock.                                                            *)
C13_HorizontalDependsOnWidthAndMode ==
  \A r \in {res, fwd} :
    "h_total" \in DOMAIN r =>
      LET ref == calculate(req.h_active, 480, Some(6000), None, req.reduced_blanking)
      IN /\ r.h_total = ref.h_total
         /\ r.h_blanking = ref.h_blanking
         /\ r.h_front_porch = ref.h_front_porch
         /\ r.h_sync_pulse = ref.h_sync_pulse
         /\ r.h_back_porch = ref.h_back_porch

(* C13 witness: a standard forward result for a width that is not a        *)
(* multiple of 8 was fed to the dual calculation, and both results have    *)
(* the blanking of the rounded width.                                      *)
C13_Witness ==
  /\ phase = "both_of_forward"
  /\ ~req.reduced_blanking
  /\ req.h_active = 1027
  /\ req.v_active # 480
  /\ req.refresh_rate # Some(6000)
  /\ ~IsError(res)
  /\ res.h_blanking = 256
  /\ fwd.h_blanking = 256

(* C14: a standard forward result has the horizontal blanking of the       *)
(* bracket of h_active rounded down to a multiple of 8 (up to 1024: 256,   *)
(* up to 1280: 320, up to 1920: 280, above: 288), h_sync_pulse = round(8%  *)
(* of h_blanking) rounded up to a multiple of 8, h_back_porch =            *)
(* h_blanking / 2 - h_sync_pulse / 2 rounded down to a multiple of 8, and  *)
(* a strictly positive h_front_porch.                                      *)
C14_StandardHorizontalBracket ==
  IsForward /\ ~req.reduced_blanking =>
    LET rounded == req.h_active - (req.h_active % 8)
        sync == RoundDiv(res.h_blanking, 8, 100)
        porch == (res.h_blanking \div 2) - (res.h_sync_pulse \div 2)
    IN /\ rounded <= 1024 => res.h_blanking = 256
       /\ rounded > 1024 /\ rounded <= 1280 => res.h_blanking = 320
       /\ rounded > 1280 /\ rounded <= 1920 => res.h_blanking = 280
       /\ rounded > 1920 => res.h_blanking = 288
       /\ res.h_sync_pulse % 8 = 0
       /\ res.h_sync_pulse >= sync
       /\ res.h_sync_pulse < sync + 8
       /\ res.h_back_porch % 8 = 0
       /\ res.h_back_porch <= porch
       /\ res.h_back_porch > porch - 8
       /\ res.h_front_porch > 0

(* C14 witness: a standard forward result for width 1285, which is above   *)
(* 1280 and rounds down to 1280, with the 320-pixel blanking.              *)
C14_Witness ==
  /\ IsForward
  /\ ~req.reduced_blanking
  /\ req.h_active = 1285
  /\ res.h_blanking = 320
  /\ res.h_sync_pulse = 32
  /\ res.h_back_porch = 144
  /\ res.h_front_porch = 144

(* C15 as stated: in dual-constraint mode the pixel_clock and refresh_rate *)
(* of the result are the caller-supplied values verbatim, also for values  *)
(* with more than two decimal places (the request's pixel clock is in      *)
(* 1/1000 MHz, the result's in 1/100 MHz).                                 *)
C15_DualEchoesVerbatim ==
  phase = "both" /\ ~IsError(res) =>
    /\ res.pixel_clock * (ClockScale \div 100) = Val(req.pixel_clock)
    /\ res.refresh_rate * (RateScale \div 100) = Val(req.refresh_rate)

(* C15 amended: in dual-constraint mode the pixel_clock and refresh_rate   *)
(* of the result are the caller-supplied values rounded to two decimal     *)
(* places, not values recomputed from the returned h_total and v_total.    *)
C15_DualEchoesRounded ==
  /\ phase = "both" /\ ~IsError(res) =>
       /\ res.pixel_clock * (ClockScale \div 100) - Val(req.pixel_clock) <= 5
       /\ Val(req.pixel_clock) - res.pixel_clock * (ClockScale \div 100) <= 5
       /\ res.refresh_rate * (RateScale \div 100) = Val(req.refresh_rate)
  /\ phase = "both_of_forward" /\ ~IsError(res) =>
       /\ res.pixel_clock = fwd.pixel_clock
       /\ res.refresh_rate * (RateScale \div 100) = Val(req.refresh_rate)

(* C15 witness: a dual-constraint result for a pixel clock of 297.004 MHz, *)
(* returned as 297.00 MHz with lines that give another clock.              *)
C15_Witness ==
  /\ phase = "both"
  /\ ~IsError(res)
  /\ req.pixel_clock = Some(297004)
  /\ res.pixel_clock = 29700
  /\ RoundDiv(res.h_total * res.v_total, Val(req.refresh_rate), 1000000) # 29700

(* C16 as stated: with T = pixel_clock * 1e6 / refresh_rate, a             *)
(* dual-constraint result has v_total = round(T / h_total), hence          *)
(* |h_total * v_total - T| <= h_total / 2, whenever round(T / h_total) -   *)
(* v_active is at least the minimum blanking (17 lines reduced blanking, 8 *)
(* lines standard), and the minimum blanking otherwise; also when the loop *)
(* stops in its first round.                                               *)
(* (T / h_total is target.q + target.r / (refresh_rate * h_total); the     *)
(* request's pixel clock is in 1/1000 MHz, its refresh rate in 1/100 Hz.)  *)
C16_DualBestApproximation ==
  (phase = "both" \/ phase = "both_of_forward") /\ ~IsError(res) =>
    LET rate == Val(req.refresh_rate)
        pixel_clock == IF phase = "both" THEN Val(req.pixel_clock)
                       ELSE fwd.pixel_clock * 10
        target == MulDiv(pixel_clock, 100000, rate * res.h_total)
        rounded == IF 2 * target.r < rate * res.h_total THEN target.q
                   ELSE target.q + 1
        minimum == IF req.reduced_blanking THEN 17 ELSE 8
    IN IF rounded - req.v_active >= minimum
       THEN \/ res.v_total = target.q /\ 2 * target.r <= rate * res.h_total
            \/ res.v_total = target.q + 1 /\ 2 * target.r >= rate * res.h_total
       ELSE res.v_blanking = minimum

(* C16 amended: the same, unless the loop stops in its first round because *)
(* the pixel clock of the seed (17 lines of blanking in both modes) is     *)
(* within 0.01 MHz of the request; the result then has the seed's 17 lines *)
(* of blanking, which need not be round(T / h_total) - v_active.           *)
C16_DualBestApproximationUnlessSeedClose ==
  (phase = "both" \/ phase = "both_of_forward") /\ ~IsError(res) =>
    LET rate == Val(req.refresh_rate)
        pixel_clock == IF phase = "both" THEN Val(req.pixel_clock)
                       ELSE fwd.pixel_clock * 10
        target == MulDiv(pixel_clock, 100000, rate * res.h_total)
        rounded == IF 2 * target.r < rate * res.h_total THEN target.q
                   ELSE target.q + 1
        minimum == IF req.reduced_blanking THEN 17 ELSE 8
    IN IF clock_close(res.h_total, req.v_active + 17, rate, pixel_clock)
       THEN res.v_blanking = 17
       ELSE IF rounded - req.v_active >= minimum
       THEN \/ res.v_total = target.q /\ 2 * target.r <= rate * res.h_total
            \/ res.v_total = target.q + 1 /\ 2 * target.r >= rate * res.h_total
       ELSE res.v_blanking = minimum

(* C16 witness: 640x480 reduced blanking at 24.12 Hz and 9.6 MHz, where    *)
(* T / h_total = 497.51 and the seed's 497 lines are returned.             *)
C16_Witness ==
  /\ phase = "both"
  /\ req.h_active = 640
  /\ req.v_active = 480
  /\ req.refresh_rate = Some(2412)
  /\ req.pixel_clock = Some(9600)
  /\ req.reduced_blanking
  /\ ~IsError(res)
  /\ res.v_total = 497

(* C17: reverse and dual-constraint results contain refresh_rate next to   *)
(* pixel_clock and the ten timing fields; forward results, standard and    *)
(* reduced blanking, contain exactly the eleven fields pixel_clock,        *)
(* h_total, ..., v_back_porch and no refresh_rate.                         *)
C17_RefreshRateFieldPresence ==
  /\ IsForward =>
       /\ DOMAIN res = TimingFields \cup {"pixel_clock"}
       /\ Cardinality(DOMAIN res) = 11
  /\ phase \in {"reverse_of_forward", "both_of_forward"} =>
       /\ DOMAIN fwd = TimingFields \cup {"pixel_clock"}
       /\ ~IsError(res) =>
            DOMAIN res = TimingFields \cup {"pixel_clock", "refresh_rate"}
  /\ phase = "calculated" /\ req.pixel_clock # None /\ ~IsError(res) =>
       DOMAIN res = TimingFields \cup {"pixel_clock", "refresh_rate"}
  /\ phase = "both" /\ ~IsError(res) =>
       DOMAIN res = TimingFields \cup {"pixel_clock", "refresh_rate"}

(* C17 witness: a reduced-blanking forward result without refresh_rate was *)
(* fed to the reverse calculation, whose result has a refresh_rate.        *)
C17_Witness ==
  /\ phase = "reverse_of_forward"
  /\ req.reduced_blanking
  /\ "refresh_rate" \notin DOMAIN fwd
  /\ "pixel_clock" \in DOMAIN fwd
  /\ "refresh_rate" \in DOMAIN res

(* C18: calculate never raises to its caller: every outcome is a result,   *)
(* and an exception raised inside a calculator after validation (the       *)
(* division by the zero frequency of an infinite pixel clock period) is    *)
(* returned as an error result with the underlying message and no timing   *)
(* fields.                                                                 *)
C18_CalculateNeverRaises ==
  phase # "request" =>
    /\ ~Raised(res)
    /\ IsError(res) \/ "pixel_clock" \in DOMAIN res
    /\ /\ phase = "calculated"
       /\ req.h_active >= 640 /\ req.h_active <= 7680
       /\ req.v_active >= 480 /\ req.v_active <= 4320
       /\ req.refresh_rate = None
       /\ req.pixel_clock = Some(Infinity)
       => res = [error |-> TRUE,
                 message |-> <<"exception", "float division by zero">>]
    /\ /\ phase = "both"
       /\ req.h_active >= 640 /\ req.h_active <= 7680
       /\ req.v_active >= 480 /\ req.v_active <= 4320
       /\ Val(req.refresh_rate) >= 2400 /\ Val(req.refresh_rate) <= 24000
       /\ req.pixel_clock = Some(Infinity)
       => res = [error |-> TRUE,
                 message |-> <<"exception", "cannot convert float infinity to integer">>]

(* C18 witness: the reverse calculation of 3840x2160 with an infinite      *)
(* pixel clock raised inside the calculator and came back as an error.     *)
C18_Witness ==
  /\ phase = "calculated"
  /\ req.h_active = 3840
  /\ req.v_active = 2160
  /\ req.refresh_rate = None
  /\ req.pixel_clock = Some(Infinity)
  /\ res.error
  /\ res.message[1] = "exception"

(* C19: every calculation terminates: the refinement loop of the reverse   *)
(* calculation runs at most 5 rounds and the loop of the dual-constraint   *)
(* calculation at most 10 rounds, whether or not a round meets the exit    *)
(* condition.                                                              *)
C19_LoopsAreBounded ==
  /\ phase = "calculated" /\ req.pixel_clock # None /\ ~IsError(res) =>
       reverse_loop(req.h_active, req.v_active, Val(req.pixel_clock),
                    req.reduced_blanking).rounds \in 1..5
  /\ phase = "reverse_of_forward" /\ ~IsError(res) =>
       reverse_loop(req.h_active, req.v_active, fwd.pixel_clock * 10,
                    req.reduced_blanking).rounds \in 1..5
  /\ phase = "both" /\ ~IsError(res) =>
       both_params_loop(req.h_active, req.v_active, Val(req.refresh_rate),
                        Val(req.pixel_clock), req.reduced_blanking).rounds \in 1..10
  /\ phase = "both_of_forward" /\ ~IsError(res) =>
       both_params_loop(req.h_active, req.v_active, Val(req.refresh_rate),
                        fwd.pixel_clock * 10, req.reduced_blanking).rounds \in 1..10

(* C19 witness: a dual-constraint request whose loop never meets the exit  *)
(* condition and stops after its tenth round.                              *)
C19_Witness ==
  /\ phase = "both"
  /\ ~IsError(res)
  /\ both_params_loop(req.h_active, req.v_active, Val(req.refresh_rate),
                      Val(req.pixel_clock), req.reduced_blanking).rounds = 10
  /\ ~clock_close(res.h_total, res.v_total, Val(req.refresh_rate), Val(req.pixel_clock))

(* C20: for every valid (h_active, v_active, refresh_rate) the forward     *)
(* reduced-blanking calculation returns a strictly lower pixel_clock than  *)
(* the forward standard calculation of the same request, also where the    *)
(* 17-line floor makes the reduced-blanking v_total the larger one.        *)
C20_ReducedBlankingClockIsLower ==
  IsForward =>
    IF req.reduced_blanking
    THEN res.pixel_clock < calculate(req.h_active, req.v_active, req.refresh_rate,
                                     None, FALSE).pixel_clock
    ELSE res.pixel_clock > calculate(req.h_active, req.v_active, req.refresh_rate,
                                     None, TRUE).pixel_clock

(* C20 witness: 7680x480 at 24 Hz with reduced blanking: 497 lines against *)
(* the 490 of the standard calculation, and 93.52 MHz.                     *)
C20_Witness ==
  /\ IsForward
  /\ req.reduced_blanking
  /\ req.h_active = 7680
  /\ req.v_active = 480
  /\ req.refresh_rate = Some(2400)
  /\ res.v_total = 497
  /\ res.pixel_clock = 9352
  /\ calculate(7680, 480, Some(2400), None, FALSE).v_total = 490

(* C25: in every mode the vertical blanking stays at or above the floor:   *)
(* standard results have v_front_porch = 3, v_sync_pulse = 4, v_back_porch *)
(* >= 1 and v_blanking >= 8, reduced-blanking results v_front_porch = 3,   *)
(* v_sync_pulse = 8, v_back_porch >= 6 and v_blanking >= 17; v_total is    *)
(* above v_active, also for a dual-constraint request whose pixel clock is *)
(* too low for its refresh rate.                                           *)
C25_VerticalBlankingFloor ==
  \A r \in {res, fwd} :
    "v_total" \in DOMAIN r =>
      /\ r.v_front_porch = 3
      /\ r.v_sync_pulse = (IF req.reduced_blanking THEN 8 ELSE 4)
      /\ r.v_back_porch >= (IF req.reduced_blanking THEN 6 ELSE 1)
      /\ r.v_blanking >= (IF req.reduced_blanking THEN 17 ELSE 8)
      /\ r.v_total > req.v_active

(* C25 witness: a standard dual-constraint request for 1920x1080 at 60 Hz  *)
(* and 13.85 MHz, whose target of 105 lines is below v_active; the result  *)
(* has the 8 lines of the floor.                                           *)
C25_Witness ==
  /\ phase = "both"
  /\ ~req.reduced_blanking
  /\ req.h_active = 1920
  /\ req.v_active = 1080
  /\ req.refresh_rate = Some(6000)
  /\ req.pixel_clock = Some(13850)
  /\ ~IsError(res)
  /\ res.v_back_porch = 1
  /\ res.v_total = 1088

(* C26: in the reverse calculation the recomputed blanking of a round does *)
(* not depend on the current vertical estimate, so the loop exits by its   *)
(* early-exit test no later than the second round, and the returned        *)
(* v_back_porch is the same from another seed (1 line standard, 16 lines   *)
(* reduced blanking, in place of 10 and 6).                                *)
C26_ReverseLoopFixedPoint ==
  phase = "calculated" /\ req.pixel_clock # None /\ ~IsError(res) =>
    /\ reverse_loop(req.h_active, req.v_active, Val(req.pixel_clock),
                    req.reduced_blanking).rounds <= 2
    /\ req.reduced_blanking =>
         rb_reverse_loop(0, 27, 16, req.v_active, Val(req.pixel_clock),
                         res.h_total).v_back_porch = res.v_back_porch
    /\ ~req.reduced_blanking =>
         std_reverse_loop(0, 1, req.v_active, Val(req.pixel_clock),
                          res.h_total).v_back_porch = res.v_back_porch

(* C27: every reverse result honours its time budget with the returned     *)
(* timing: with a line period of h_total / pixel_clock microseconds,       *)
(* (v_sync_pulse + v_back_porch) lines last at least 550 us in a standard  *)
(* result and v_blanking lines at least 460 us in a reduced-blanking one,  *)
(* and refresh_rate = round2(pixel_clock * 1e6 / (h_total * v_total)) for  *)
(* the returned totals.  (The pixel clock is in 1/1000 MHz; lines last at   *)
(* least the budget when lines >= budget * pixel_clock / h_total.)         *)
C27_ReverseHonoursBudget ==
  /\ (phase = "calculated" /\ req.pixel_clock # None) \/ phase = "reverse_of_forward"
  /\ ~IsError(res)
  =>
      LET pixel_clock == IF phase = "calculated" THEN Val(req.pixel_clock)
                         ELSE fwd.pixel_clock * 10
          lines == IF req.reduced_blanking THEN res.v_blanking
                   ELSE res.v_sync_pulse + res.v_back_porch
          needed == MulDiv(IF req.reduced_blanking THEN 460 ELSE 550,
                           pixel_clock, 1000 * res.h_total)
      IN /\ lines > needed.q \/ (lines = needed.q /\ needed.r = 0)
         /\ res.refresh_rate = RoundDiv(pixel_clock, 100000, res.h_total * res.v_total)

(* C27 witness: the standard reverse result for 1920 wide at 160 MHz,      *)
(* where 550 us are exactly the 40 lines of sync pulse and back porch.     *)
C27_Witness ==
  /\ phase = "calculated"
  /\ req.h_active = 1920
  /\ req.pixel_clock = Some(160000)
  /\ req.refresh_rate = None
  /\ ~req.reduced_blanking
  /\ ~IsError(res)
  /\ res.v_sync_pulse + res.v_back_porch = 40
  /\ 40 * res.h_total * 1000 = 550 * 160000

(* C21: the counter widths of the generated module equal ceil(log2(h_total)) *)
(* and ceil(log2(v_total)) for totals of 2 and more, the least w with      *)
(* 2^w >= total, exact powers of two included; so every count 0..total-1  *)
(* fits the register and the counters never meet the end of their width.   *)
C21_CounterWidths ==
  ~Raised(tb_vesa_timing_gen) /\ timing_params.h_total >= 2 /\ timing_params.v_total >= 2 =>
    /\ \A w \in 0..16 :
         /\ h_counter_width(timing_params) = w
              <=> (2 ^ w >= timing_params.h_total /\ 2 ^ w < 2 * timing_params.h_total)
         /\ v_counter_width(timing_params) = w
              <=> (2 ^ w >= timing_params.v_total /\ 2 ^ w < 2 * timing_params.v_total)
    /\ timing_params.h_total - 1 < 2 ^ h_counter_width(timing_params)
    /\ timing_params.v_total - 1 < 2 ^ v_counter_width(timing_params)
    /\ u_vesa_timing_gen.h_count < 2 ^ h_counter_width(timing_params)
    /\ u_vesa_timing_gen.v_count < 2 ^ v_counter_width(timing_params)

(* a total of 8, an exact power of two, with a 3-bit counter at its top    *)
(* value 7 in the last line of a frame                                     *)
C21_Witness ==
  /\ ~Raised(tb_vesa_timing_gen)
  /\ timing_params.h_total = 8
  /\ timing_params.v_total = 8
  /\ h_counter_width(timing_params) = 3
  /\ v_counter_width(timing_params) = 3
  /\ u_vesa_timing_gen.h_count = 7
  /\ u_vesa_timing_gen.v_count = 7

(* C28: with reset released, h_count runs 0..H_TOTAL-1 in order and wraps  *)
(* to 0; v_count steps exactly on the clock edge where h_count equals      *)
(* H_TOTAL-1 and wraps from V_TOTAL-1 to 0; neither counter holds a value  *)
(* at or above its total; (h_count, v_count) is (0,0) exactly every        *)
(* H_TOTAL*V_TOTAL clocks (clocks counts the edges since the release).     *)
C28_CountersScanTheFrame ==
  /\ [](~Raised(tb_vesa_timing_gen) =>
          /\ u_vesa_timing_gen.h_count < timing_params.h_total
          /\ u_vesa_timing_gen.v_count < timing_params.v_total
          /\ u_vesa_timing_gen.h_count = tb_vesa_timing_gen.clocks % timing_params.h_total
          /\ u_vesa_timing_gen.v_count =
               (tb_vesa_timing_gen.clocks \div timing_params.h_total) % timing_params.v_total
          /\ (u_vesa_timing_gen.h_count = 0 /\ u_vesa_timing_gen.v_count = 0)
               <=> tb_vesa_timing_gen.clocks % (timing_params.h_total * timing_params.v_total) = 0)
  /\ [][~Raised(tb_vesa_timing_gen) /\ tb_vesa_timing_gen'.clocks = tb_vesa_timing_gen.clocks + 1 =>
          /\ u_vesa_timing_gen'.h_count =
               IF u_vesa_timing_gen.h_count = timing_params.h_total - 1 THEN 0
               ELSE u_vesa_timing_gen.h_count + 1
          /\ (u_vesa_timing_gen'.v_count # u_vesa_timing_gen.v_count)
               <=> u_vesa_timing_gen.h_count = timing_params.h_total - 1
          /\ u_vesa_timing_gen'.v_count \in
               {u_vesa_timing_gen.v_count, u_vesa_timing_gen.v_count + 1, 0}
          /\ u_vesa_timing_gen'.v_count = 0 /\ u_vesa_timing_gen.v_count # 0
               => u_vesa_timing_gen.v_count = timing_params.v_total - 1]_vars

(* one whole frame after the release, in a frame of 5 pixels by 8 lines,   *)
(* both counters are back at 0                                             *)
C28_Witness ==
  /\ ~Raised(tb_vesa_timing_gen)
  /\ tb_vesa_timing_gen.rst_n = 1
  /\ timing_params.h_total = 5
  /\ timing_params.v_total = 8
  /\ tb_vesa_timing_gen.clocks = 40
  /\ u_vesa_timing_gen.h_count = 0
  /\ u_vesa_timing_gen.v_count = 0

(* C24: the test fixture generated for a timing produced by calculate ends *)
(* through its frame limit: the third falling edge of vsync and the tail   *)
(* of 10 lines come before the timeout of 5 * H_TOTAL * V_TOTAL clock      *)
(* periods, so the "Simulation completed successfully" finish is reached   *)
(* and the timeout finish is not.                                          *)
C24_FixtureEndsByFrameLimit ==
  /\ [](phase = "generated" /\ ~Raised(tb_vesa_timing_gen)
          => tb_vesa_timing_gen.finish # "timeout")
  /\ (phase = "generated")
       ~> (~Raised(tb_vesa_timing_gen) /\ tb_vesa_timing_gen.finish = "completed")

(* C29: for every valid forward request handed to the generator as the     *)
(* demo does, the parameters of the generated module add up,               *)
(* H_ACTIVE + H_FRONT_PORCH + H_SYNC_PULSE + H_BACK_PORCH = H_TOTAL and    *)
(* the same vertically, so that hsync is low for exactly H_SYNC_PULSE      *)
(* clocks of a line and exactly H_BACK_PORCH clocks follow it; h_active    *)
(* values that are not multiples of 8 included.                            *)
C29_GeneratedParametersAddUp ==
  phase = "generated" =>
    /\ timing_params.h_active + timing_params.h_front_porch
         + timing_params.h_sync_pulse + timing_params.h_back_porch = timing_params.h_total
    /\ timing_params.v_active + timing_params.v_front_porch
         + timing_params.v_sync_pulse + timing_params.v_back_porch = timing_params.v_total
    /\ hsync_low_clocks(timing_params) = timing_params.h_sync_pulse
    /\ clocks_after_hsync(timing_params) = timing_params.h_back_porch

(* C22: whenever the window shows an error, from any state and also right  *)
(* after a successful calculation, row 0 of the results table holds the    *)
(* error message and rows 1..10 are empty: no timing value of an earlier   *)
(* calculation stays visible next to an error.                             *)
C22_ErrorBlanksTheTable ==
  /\ "error" \in DOMAIN window.statusBar =>
       /\ window.results_table[0] = [error |-> window.statusBar.error]
       /\ \A i \in 1..10 : window.results_table[i] = EmptyText
  /\ "error" \in DOMAIN window.results_table[0] =>
       \A i \in 1..10 : window.results_table[i] = EmptyText

(* an error shown after the second preset had been calculated in reverse   *)
(* mode: the table was full before                                         *)
C22_Witness ==
  /\ window.event = "_show_error"
  /\ window.preset_combobox = 2
  /\ window.mode_combobox = 1
  /\ window.refresh_rate_spinbox # 60 * RateScale
  /\ window.results_table[0] = [error |-> "test_message"]
  /\ \A i \in 1..10 : window.results_table[i] = EmptyText

(* C23: every user-visible change (a value change of h_active, v_active,   *)
(* refresh_rate or pixel_clock, a reduced-blanking toggle, a mode switch,  *)
(* a preset selection with index >= 1, a click on the calculate button)    *)
(* makes exactly one call of calculate, with the current input values, and *)
(* afterwards the results table shows the outcome of calculate for the     *)
(* current input values; a preset selection fills its three fields first   *)
(* and then calculates once; selecting preset index 0 changes nothing.     *)
C23_OneCalculationPerChange ==
  /\ [](/\ (window.event \in {"h_active", "v_active", "refresh_rate", "pixel_clock",
                               "reduced_blanking", "mode", "calculate_button"}
              \/ (window.event = "preset" /\ window.preset_combobox >= 1)) =>
             /\ Len(window.calls) = 1
             /\ window.calls[1] = calculate_arguments(window)
             /\ ~IsError(calculator_calculate(calculate_arguments(window)))
             /\ \A i \in 0..10 :
                  /\ "value" \in DOMAIN window.results_table[i]
                  /\ window.results_table[i].value =
                       calculator_calculate(calculate_arguments(window))[parameters[i + 1][1]]
                  /\ window.results_table[i].unit = parameters[i + 1][2]
        /\ window.event = "preset" /\ window.preset_combobox >= 1 =>
             /\ window.h_active_spinbox = presets[window.preset_combobox][1]
             /\ window.v_active_spinbox = presets[window.preset_combobox][2]
             /\ window.calls[1].h_active = presets[window.preset_combobox][1]
             /\ window.calls[1].v_active = presets[window.preset_combobox][2]
             /\ window.mode_combobox = 0 =>
                  /\ window.refresh_rate_spinbox = presets[window.preset_combobox][3]
                  /\ window.calls[1].refresh_rate = Some(presets[window.preset_combobox][3])
        /\ window.event = "preset" /\ window.preset_combobox = 0 => window.calls = << >>)
  /\ [][window.preset_combobox # 0 /\ window'.preset_combobox = 0 =>
          window' = [window EXCEPT !.preset_combobox = 0, !.event = "preset",
                                   !.calls = << >>]]_vars

(* a pixel clock entered in reverse mode: one call with the current        *)
(* inputs, and the refresh rate field holds the derived rate               *)
C23_Witness ==
  /\ window.event = "pixel_clock"
  /\ window.mode_combobox = 1
  /\ window.pixel_clock_spinbox = 2518
  /\ Len(window.calls) = 1
  /\ window.calls[1].pixel_clock = Some(25180)
  /\ window.refresh_rate_spinbox # 60 * RateScale
  /\ window.results_table[0] = [value |-> 2518, unit |-> "MHz"]

(* C30: after construction and after any sequence of mode switches exactly *)
(* one of the refresh_rate and pixel_clock inputs is enabled, refresh_rate *)
(* in mode 0 and pixel_clock in mode 1; so the window calls calculate with *)
(* exactly one of the two parameters, inside the range of its widget, and  *)
(* the overwrite of the refresh_rate field in mode 1 triggers no further   *)
(* calculation.                                                            *)
C30_OneInputEnabled ==
  /\ window.refresh_rate_enabled # window.pixel_clock_enabled
  /\ window.refresh_rate_enabled <=> window.mode_combobox = 0
  /\ window.pixel_clock_enabled <=> window.mode_combobox = 1
  /\ \A k \in 1..Len(window.calls) :
       /\ (window.calls[k].refresh_rate = None) # (window.calls[k].pixel_clock = None)
       /\ window.calls[k].refresh_rate # None =>
            /\ window.mode_combobox = 0
            /\ Val(window.calls[k].refresh_rate) >= 24 * RateScale
            /\ Val(window.calls[k].refresh_rate) <= 240 * RateScale
       /\ window.calls[k].pixel_clock # None =>
            /\ window.mode_combobox = 1
            /\ Val(window.calls[k].pixel_clock) >= 10 * ClockScale
            /\ Val(window.calls[k].pixel_clock) <= 1000 * ClockScale
  /\ window.mode_combobox = 1 => Len(window.calls) <= 1

(* the switch to mode 1: one call with the pixel clock only, and the       *)
(* refresh rate field now holds the derived rate                           *)
C30_Witness ==
  /\ window.event = "mode"
  /\ window.mode_combobox = 1
  /\ window.pixel_clock_enabled
  /\ ~window.refresh_rate_enabled
  /\ Len(window.calls) = 1
  /\ window.calls[1].refresh_rate = None
  /\ window.calls[1].pixel_clock = Some(148500)
  /\ window.refresh_rate_spinbox # 60 * RateScale

====
